---- MODULE Spec2Model ----
(***************************************************************************)
(* DaggerQuest-Pixi: the gear overlay engine (Gear), the Player            *)
(* equip/unequip operations, the character animation state machine and the *)
(* HUD handlers that start equip operations, as a state machine.           *)
(*                                                                         *)
(* Asynchronous functions are split at their awaits: an action runs one    *)
(* function from a resume point to its next await (the synchronous prefix  *)
(* of a callee included).  Every await is a point at which any other       *)
(* handler may run.                                                        *)
(***************************************************************************)
EXTENDS Integers, Sequences, FiniteSets, TLC

None == "none"
\* the null of Gear._currentDirection (no direction of the game is -0.1 degrees)
NoDir == -1

Min(a, b) == IF a < b THEN a ELSE b
Max(a, b) == IF a > b THEN a ELSE b

(***************************************************************************)
(* Bounds of the model.                                                    *)
(***************************************************************************)
\* number of Player operations / UI handlers started in one behaviour
MaxOps == 2
\* number of asynchronous handlers that can be in flight at once
MaxTasks == 2
\* number of asynchronous UI / pointer handlers started in one behaviour
MaxHandlers == 3
\* Gear objects of one sprite key base alive at the same time
MaxInst == 2
\* inventory slots of the HUD that are exercised
InvSize == 2

(***************************************************************************)
(* Static data: characters, slots, items and the spritesheet manifest.     *)
(* Directions are in tenths of a degree (-225 is the key "-22.5").         *)
(***************************************************************************)
Chars == {"man", "woman"}
ThePlayer == "man"
\* an NPC (with a wanderRadius) and an enemy of Farm._spawnEnemies
TheNpc == "guide"
TheEnemy == "enemy"
Characters == Chars \cup {TheNpc, TheEnemy}

Anims == {"idle", "walk"}
D0 == 0
D1 == -225
Dirs == {D0, D1}

Slots == {"legs", "chest", "head"}

Items == {"simplepants", "simpleshirt", "crudehelmet"}
DefaultBases == {"legsdefault", "headdefault"}
Bases == Items \cup DefaultBases

\* Item.slot of the items of the model
ItemSlot(item) ==
    CASE item = "simplepants" -> "legs"
      [] item = "simpleshirt" -> "chest"
      [] item = "crudehelmet" -> "head"

\* Man.defaultGearSlots
defaultGearSlots == [legs |-> "legsdefault", chest |-> None, head |-> "headdefault"]

GEAR_SLOT_Z_ORDER ==
    [feet |-> 0, legs |-> 1, chest |-> 2, neck |-> 3,
     hands |-> 4, offhand |-> 5, mainhand |-> 6, head |-> 7]

\* GEAR_SLOT_Z_ORDER[slot] ?? 0
SlotZ(slot) ==
    IF slot \in DOMAIN GEAR_SLOT_Z_ORDER THEN GEAR_SLOT_Z_ORDER[slot] ELSE 0

(***************************************************************************)
(* Frame tables.  A table is the sequence, in insertion order, of          *)
(* [anim, dirs], dirs being the sequence in insertion order of [dir, len]: *)
(* only the length of a frame array and its identity (table, anim, dir)    *)
(* matter.                                                                 *)
(***************************************************************************)
DirEntry(d, n) == [dir |-> d, len |-> n]
AnimEntry(a, ds) == [anim |-> a, dirs |-> ds]

FullTable(walkLen) ==
    << AnimEntry("idle", << DirEntry(D1, 2), DirEntry(D0, 1) >>),
       AnimEntry("walk", << DirEntry(D1, walkLen), DirEntry(D0, walkLen) >>) >>

\* the frames parsed by Entity.loadTextures for a character sprite key: walk
\* frames for east and west only (one frame for west), every other
\* direction falling back to the first direction of walk
CharTable ==
    << AnimEntry("idle", << DirEntry(D1, 2), DirEntry(D0, 1) >>),
       AnimEntry("walk", << DirEntry(D0, 2), DirEntry(1800, 1) >>) >>

\* the frames of one spritesheet file of the manifest
SheetTable(base, shadow, n) ==
    CASE base \in DefaultBases /\ ~shadow -> FullTable(2)
      [] base = "simpleshirt" /\ ~shadow -> FullTable(2)
      [] base = "simplepants" /\ ~shadow ->
            << AnimEntry("idle", << DirEntry(D1, 2), DirEntry(D0, 1) >>) >>
      [] base = "crudehelmet" /\ ~shadow /\ n = 1 ->
            << AnimEntry("idle", << DirEntry(D1, 2), DirEntry(D0, 1) >>) >>
      [] base = "crudehelmet" /\ ~shadow /\ n = 2 ->
            << AnimEntry("walk", << DirEntry(D1, 1), DirEntry(D0, 1) >>) >>
      [] base = "crudehelmet" /\ shadow ->
            << AnimEntry("idle", << DirEntry(D0, 1) >>),
               AnimEntry("walk", << DirEntry(D0, 1) >>) >>
      [] OTHER -> << >>

\* manifest[key].length for the key {character}_{base}_gear[_shadow]
SheetCount(base, shadow) ==
    CASE base \in DefaultBases /\ ~shadow -> 1
      [] base = "simpleshirt" /\ ~shadow -> 1
      [] base = "simplepants" /\ ~shadow -> 1
      [] base = "crudehelmet" /\ ~shadow -> 2
      [] base = "crudehelmet" /\ shadow -> 1
      [] OTHER -> 0

\* the full path of the n-th sheet of a key
SheetPath(c, base, shadow, n) == << c, base, shadow, n >>

(***************************************************************************)
(* Object.keys order of JavaScript: keys that are canonical array indices  *)
(* (here: whole, non-negative degrees) come first in ascending order, the  *)
(* other keys follow in insertion order.                                   *)
(***************************************************************************)
IsIndexKey(d) == d >= 0 /\ d % 10 = 0

FirstDirIdx(dirs) ==
    LET idx == { i \in 1..Len(dirs) : IsIndexKey(dirs[i].dir) }
    IN IF idx # {}
       THEN CHOOSE i \in idx : \A j \in idx : dirs[i].dir <= dirs[j].dir
       ELSE 1

HasAnim(table, a) == \E i \in 1..Len(table) : table[i].anim = a

AnimDirs(table, a) ==
    LET i == CHOOSE k \in 1..Len(table) : table[k].anim = a
    IN table[i].dirs

NoFrames == [anim |-> None, dir |-> 0, len |-> 0]
Frames(a, d, n) == [anim |-> a, dir |-> d, len |-> n]

\* the lookup without its fallback
_getFrames_exact(table, a, d) ==
    IF ~HasAnim(table, a) THEN NoFrames
    ELSE LET dirs == AnimDirs(table, a)
             hit  == { i \in 1..Len(dirs) : dirs[i].dir = d /\ dirs[i].len > 0 }
         IN IF hit # {}
            THEN LET i == CHOOSE k \in hit : TRUE
                 IN Frames(a, dirs[i].dir, dirs[i].len)
            ELSE NoFrames

\* Entity.getAnimationFrames / Gear._getFrames: exact match, else the first
\* available direction of the animation, else nothing
_getFrames(table, a, d) ==
    IF ~HasAnim(table, a) THEN NoFrames
    ELSE LET dirs == AnimDirs(table, a)
             hit  == { i \in 1..Len(dirs) : dirs[i].dir = d /\ dirs[i].len > 0 }
         IN IF hit # {}
            THEN LET i == CHOOSE k \in hit : TRUE
                 IN Frames(a, dirs[i].dir, dirs[i].len)
            ELSE IF Len(dirs) = 0 THEN NoFrames
            ELSE LET f == dirs[FirstDirIdx(dirs)]
                 IN Frames(a, f.dir, f.len)

\* the parse loop of Gear._loadSheetTextures: frames of one sheet merged
\* into the target table
RECURSIVE MergeDirs(_, _)
MergeDirs(dirs, add) ==
    IF add = << >> THEN dirs
    ELSE LET e == Head(add)
             at == { i \in 1..Len(dirs) : dirs[i].dir = e.dir }
         IN IF at = {}
            THEN MergeDirs(Append(dirs, e), Tail(add))
            ELSE LET i == CHOOSE k \in at : TRUE
                 IN MergeDirs([dirs EXCEPT ![i].len = Max(@, e.len)], Tail(add))

RECURSIVE MergeTable(_, _)
MergeTable(table, sheet) ==
    IF sheet = << >> THEN table
    ELSE LET e == Head(sheet)
             at == { i \in 1..Len(table) : table[i].anim = e.anim }
         IN IF at = {}
            THEN MergeTable(Append(table, AnimEntry(e.anim, MergeDirs(<< >>, e.dirs))),
                            Tail(sheet))
            ELSE LET i == CHOOSE k \in at : TRUE
                 IN MergeTable([table EXCEPT ![i].dirs = MergeDirs(@, e.dirs)],
                               Tail(sheet))


(***************************************************************************)
(* State.                                                                  *)
(***************************************************************************)
VARIABLES
    gears,        \* the fields of every Gear object, by gear id
    chr,          \* per character: AnimatedSprite and walk/idle state
    containers,   \* per character: children of character.container, back to front
    equippedGear, \* per character: Player.equippedGear, slot -> gear id
    ticker,       \* PIXI.Ticker.shared: the registered Gear _tickerFn, in order
    assetCache,   \* PIXI.Assets: the spritesheet paths currently loaded
    tasks,        \* the asynchronous calls in flight: a stack of frames each
    ui,           \* UI.equippedSlots / inventorySlots items, _rightClickBusy, _drag
    lootOnGround, \* area.lootOnGround (a Loot is named by its Item)
    hist,         \* history: operations started, createPlayer done, gear reloaded,
                  \* a script holds the gears it made
    geo,          \* the polygons handed to the collision functions and their result
    ent,          \* an Entity from its construction to its destruction
    call          \* a call of findClosestDirection or getAnimationFrames: the
                  \* entity's data, the arguments, the value returned

vars == << gears, chr, containers, equippedGear, ticker, assetCache,
           tasks, ui, lootOnGround, hist, geo, ent, call >>

GearIds == Bases \X (1..MaxInst)
NoGear == << None, 0 >>
TaskIds == 1..MaxTasks

GearBase(g) == g[1]
\* Gear.slot: slot || item.slot
GearSlot(g) ==
    CASE GearBase(g) = "legsdefault" -> "legs"
      [] GearBase(g) = "headdefault" -> "head"
      [] OTHER -> ItemSlot(GearBase(g))

\* a PIXI.AnimatedSprite of a Gear: never playing, shows frame `frame` of `tex`
NoSprite == [on |-> FALSE, tex |-> NoFrames, frame |-> 0]
NewSprite(frames) == [on |-> TRUE, tex |-> frames, frame |-> 0]

\* the fields set by the Gear constructor
NewGear ==
    [ live           |-> FALSE,
      character      |-> None,
      spriteKey      |-> None,
      textures       |-> << >>,
      shadowTextures |-> << >>,
      sprite         |-> NoSprite,
      shadowSprite   |-> NoSprite,
      assetPaths     |-> << >>,
      tickerFn       |-> FALSE,
      curAnim        |-> None,
      curDir         |-> NoDir,
      loaded         |-> << >>,   \* history: paths pushed by the last equip
      released       |-> << >> ]  \* history: paths unloaded by the last unequip

\* display objects: the character's own sprite and the gear sprites
CharSprite(c) == [kind |-> "char", owner |-> << c, 0 >>]
\* Entity.shadowSprite, added to the container before the sprite by initSprite
EntityShadow(c) == [kind |-> "eshadow", owner |-> << c, 0 >>]
MainOf(g) == [kind |-> "main", owner |-> g]
ShadowOf(g) == [kind |-> "shadow", owner |-> g]

\* the mutable objects the synchronous code works on, as one record
World == [ gears |-> gears, chr |-> chr, cont |-> containers,
           eq |-> equippedGear, ticker |-> ticker ]

(***************************************************************************)
(* PIXI primitives used by the code.                                       *)
(***************************************************************************)
IndexOf(seq, x) == CHOOSE i \in 1..Len(seq) : seq[i] = x
InSeq(seq, x) == \E i \in 1..Len(seq) : seq[i] = x

\* container.getChildIndex (0-based)
getChildIndex(seq, d) == IndexOf(seq, d) - 1

\* container.addChildAt(child, idx), idx 0-based
addChildAt(seq, d, idx) ==
    SubSeq(seq, 1, idx) \o << d >> \o SubSeq(seq, idx + 1, Len(seq))

\* parent.removeChild(child)
removeChild(seq, d) ==
    IF InSeq(seq, d)
    THEN LET i == IndexOf(seq, d)
         IN SubSeq(seq, 1, i - 1) \o SubSeq(seq, i + 1, Len(seq))
    ELSE seq

\* Ticker.remove of the gear's current _tickerFn: its latest registration
TickerRemove(tk, g) ==
    LET at == { i \in 1..Len(tk) : tk[i] = g }
    IN IF at = {} THEN tk
       ELSE LET i == CHOOSE k \in at : \A j \in at : j <= k
            IN SubSeq(tk, 1, i - 1) \o SubSeq(tk, i + 1, Len(tk))

\* AnimatedSprite: assigning textures stops playback and shows frame 0
SetTextures(sp, frames) == [sp EXCEPT !.tex = frames, !.frame = 0, !.playing = FALSE]
gotoAndPlay(sp, f) == [sp EXCEPT !.frame = f, !.playing = TRUE]
gotoAndStop(sp, f) == [sp EXCEPT !.frame = f, !.playing = FALSE]

(***************************************************************************)
(* Gear: the synchronous helpers.                                          *)
(***************************************************************************)
\* the gears in Object.values(character.equippedGear)
EquippedValues(W, c) == { W.eq[c][s] : s \in Slots } \ { NoGear }

\* gearBySprite.get(child): the equipped gear owning the display object
OwnerGear(W, c, d) ==
    LET own == { g \in EquippedValues(W, c) :
                   \/ d = MainOf(g) /\ W.gears[g].sprite.on
                   \/ d = ShadowOf(g) /\ W.gears[g].shadowSprite.on }
    IN IF own = {} THEN NoGear ELSE CHOOSE g \in own : TRUE

\* the scan of Gear._getInsertIndex from 0-based position i with running idx
RECURSIVE InsertScan(_, _, _, _, _)
InsertScan(W, c, myZ, i, idx) ==
    IF i >= Len(W.cont[c]) THEN idx
    ELSE LET owner == OwnerGear(W, c, W.cont[c][i + 1])
         IN IF owner = NoGear THEN InsertScan(W, c, myZ, i + 1, i + 1)
            ELSE IF SlotZ(GearSlot(owner)) >= myZ THEN i
            ELSE InsertScan(W, c, myZ, i + 1, i + 1)

\* an insert index that ignores the slot z-order: on top of every child
_getInsertIndex_top(W, g) == Len(W.cont[W.gears[g].character])

_getInsertIndex(W, g) ==
    LET c == W.gears[g].character
        charIdx == getChildIndex(W.cont[c], CharSprite(c))
    IN InsertScan(W, c, SlotZ(GearSlot(g)), charIdx + 1, charIdx + 1)

\* Gear._createSprites: overlay sprites at frame 0 of the character's
\* currently displayed (animName, direction), inserted by slot z-order
_createSprites(W, g) ==
    LET gr == W.gears[g]
        c == gr.character
        animName == W.chr[c].sprite.tex.anim
        direction == W.chr[c].sprite.tex.dir
    IN IF ~HasAnim(gr.textures, animName) THEN W
       ELSE
        LET insertIdx == _getInsertIndex(W, g)
            shadowFrames == _getFrames(gr.shadowTextures, animName, direction)
            withShadow == Len(gr.shadowTextures) > 0 /\ shadowFrames.len > 0
            W1 == IF withShadow
                  THEN [W EXCEPT !.gears[g].shadowSprite = NewSprite(shadowFrames),
                                 !.cont[c] = addChildAt(@, ShadowOf(g), insertIdx)]
                  ELSE W
            frames == _getFrames(gr.textures, animName, direction)
            mainIdx == IF withShadow
                       THEN getChildIndex(W1.cont[c], ShadowOf(g)) + 1
                       ELSE insertIdx
        IN IF frames.len = 0 THEN W1
           ELSE [W1 EXCEPT !.gears[g].sprite = NewSprite(frames),
                           !.cont[c] = addChildAt(@, MainOf(g), mainIdx)]

\* _sync that copies the character's frame index without clamping it
_sync_noClamp(gr, csp) ==
    IF gr.character = None \/ ~gr.sprite.on THEN gr
    ELSE
     LET animName == csp.tex.anim
         direction == csp.tex.dir
         changed == animName # gr.curAnim \/ direction # gr.curDir
         frames == _getFrames(gr.textures, animName, direction)
         shadowFrames == _getFrames(gr.shadowTextures, animName, direction)
         sp1 == IF changed /\ frames.len > 0
                THEN [gr.sprite EXCEPT !.tex = frames, !.frame = 0]
                ELSE gr.sprite
         sh1 == IF changed /\ gr.shadowSprite.on /\ shadowFrames.len > 0
                THEN [gr.shadowSprite EXCEPT !.tex = shadowFrames, !.frame = 0]
                ELSE gr.shadowSprite
     IN [gr EXCEPT !.curAnim = IF changed THEN animName ELSE @,
                   !.curDir = IF changed THEN direction ELSE @,
                   !.sprite = [sp1 EXCEPT !.frame = csp.frame],
                   !.shadowSprite = IF sh1.on THEN [sh1 EXCEPT !.frame = csp.frame]
                                    ELSE sh1]

\* Gear._sync on a gear record, given the character's sprite
_sync(gr, csp) ==
    IF gr.character = None \/ ~gr.sprite.on THEN gr
    ELSE
     LET animName == csp.tex.anim
         direction == csp.tex.dir
         changed == animName # gr.curAnim \/ direction # gr.curDir
         frames == _getFrames(gr.textures, animName, direction)
         shadowFrames == _getFrames(gr.shadowTextures, animName, direction)
         sp1 == IF changed /\ frames.len > 0
                THEN [gr.sprite EXCEPT !.tex = frames, !.frame = 0]
                ELSE gr.sprite
         sh1 == IF changed /\ gr.shadowSprite.on /\ shadowFrames.len > 0
                THEN [gr.shadowSprite EXCEPT !.tex = shadowFrames, !.frame = 0]
                ELSE gr.shadowSprite
         charFrame == csp.frame
         sp2 == [sp1 EXCEPT !.frame = Min(charFrame, sp1.tex.len - 1)]
         sh2 == IF sh1.on
                THEN [sh1 EXCEPT !.frame = Min(charFrame, sh1.tex.len - 1)]
                ELSE sh1
     IN [gr EXCEPT !.curAnim = IF changed THEN animName ELSE @,
                   !.curDir = IF changed THEN direction ELSE @,
                   !.sprite = sp2,
                   !.shadowSprite = sh2]


(***************************************************************************)
(* Character: walk / idle animation state machine.                         *)
(***************************************************************************)
\* Player.onAnimationChanged: syncNow on every gear of equippedGear
onAnimationChanged(W, c) ==
    IF c \notin Chars THEN W
    ELSE [W EXCEPT !.gears = [g \in GearIds |->
            IF g \in EquippedValues(W, c) THEN _sync(W.gears[g], W.chr[c].sprite)
            ELSE W.gears[g]]]

\* Character.startIdlePingPong
startIdlePingPong(W, c) ==
    LET idleFrames == _getFrames(CharTable, "idle", W.chr[c].direction)
    IN IF idleFrames.len <= 1
       THEN [W EXCEPT !.chr[c].sprite = gotoAndStop(@, 0)]
       ELSE LET sp == [SetTextures(W.chr[c].sprite, idleFrames)
                          EXCEPT !.loop = FALSE, !.fwd = TRUE, !.onComplete = TRUE]
                W1 == [W EXCEPT !.chr[c].sprite = gotoAndPlay(sp, 0),
                                !.chr[c].idlePingPongForward = TRUE]
            IN onAnimationChanged(W1, c)

\* Character.startWalkAnimation resuming at savedFrame, without the modulo
startWalkAnimation_savedFrame(W, c) ==
    LET walkFrames == _getFrames(CharTable, "walk", W.chr[c].direction)
    IN IF walkFrames.len > 0
       THEN LET savedFrame == IF W.chr[c].isWalking THEN W.chr[c].sprite.frame ELSE 0
                sp == [SetTextures(W.chr[c].sprite, walkFrames)
                          EXCEPT !.loop = TRUE, !.fwd = TRUE, !.onComplete = FALSE]
                W1 == [W EXCEPT !.chr[c].sprite = gotoAndPlay(sp, savedFrame),
                                !.chr[c].isWalking = TRUE]
            IN onAnimationChanged(W1, c)
       ELSE W

\* Character.startWalkAnimation
startWalkAnimation(W, c) ==
    LET walkFrames == _getFrames(CharTable, "walk", W.chr[c].direction)
    IN IF walkFrames.len > 0
       THEN LET savedFrame == IF W.chr[c].isWalking THEN W.chr[c].sprite.frame ELSE 0
                sp == [SetTextures(W.chr[c].sprite, walkFrames)
                          EXCEPT !.loop = TRUE, !.fwd = TRUE, !.onComplete = FALSE]
                W1 == [W EXCEPT !.chr[c].sprite = gotoAndPlay(sp, savedFrame % walkFrames.len),
                                !.chr[c].isWalking = TRUE]
            IN onAnimationChanged(W1, c)
       ELSE W

\* Character.stopWalkAnimation
stopWalkAnimation(W, c) ==
    IF ~W.chr[c].isWalking THEN W
    ELSE LET W1 == [W EXCEPT !.chr[c].isWalking = FALSE]
             idleFrames == _getFrames(CharTable, "idle", W.chr[c].direction)
         IN IF idleFrames.len > 0
            THEN startIdlePingPong(
                    [W1 EXCEPT !.chr[c].sprite = SetTextures(@, idleFrames)], c)
            ELSE W1

\* Player.moveToward, newDirection being findClosestDirection of the click
moveToward(W, c, newDirection) ==
    LET W1 == [W EXCEPT !.chr[c].hasTarget = TRUE]
    IN IF ~W.chr[c].isWalking \/ newDirection # W.chr[c].direction
       THEN startWalkAnimation([W1 EXCEPT !.chr[c].direction = newDirection], c)
       ELSE W1

\* an onComplete closure that always restarts the idle sequence forward
IdleOnComplete_forward(ch) ==
    IF ch.isWalking THEN ch
    ELSE [ch EXCEPT !.idlePingPongForward = TRUE,
                    !.sprite = gotoAndPlay([@ EXCEPT !.fwd = TRUE], 0)]

\* the sprite.onComplete closure installed by startIdlePingPong
IdleOnComplete(ch) ==
    IF ch.isWalking THEN ch
    ELSE IF ~ch.idlePingPongForward
         THEN [ch EXCEPT !.idlePingPongForward = TRUE,
                         !.sprite = gotoAndPlay([@ EXCEPT !.fwd = TRUE], 0)]
         ELSE [ch EXCEPT !.idlePingPongForward = FALSE,
                         !.sprite = gotoAndPlay([@ EXCEPT !.fwd = FALSE], @.tex.len - 1)]

\* AnimatedSprite.update of the character sprite when the frame advances
SpriteUpdate(ch) ==
    LET sp == ch.sprite
        n == sp.tex.len
    IN IF ~sp.playing THEN ch
       ELSE IF sp.loop
       THEN [ch EXCEPT !.sprite.frame = (sp.frame + 1) % n]
       ELSE IF sp.fwd /\ sp.frame + 1 < n
       THEN [ch EXCEPT !.sprite.frame = sp.frame + 1]
       ELSE IF ~sp.fwd /\ sp.frame - 1 >= 0
       THEN [ch EXCEPT !.sprite.frame = sp.frame - 1]
       ELSE LET stopped == [ch EXCEPT !.sprite =
                              gotoAndStop(@, IF sp.fwd THEN n - 1 ELSE 0)]
            IN IF sp.onComplete THEN IdleOnComplete(stopped) ELSE stopped

\* one tick of PIXI.Ticker.shared: the sprite updates (priority HIGH), then
\* every registered Gear _tickerFn
TickWorld(W, adv) ==
    LET chr1 == [c \in DOMAIN W.chr |->
                    IF adv THEN SpriteUpdate(W.chr[c]) ELSE W.chr[c]]
    IN [W EXCEPT !.chr = chr1,
                 !.gears = [g \in GearIds |->
                     IF InSeq(W.ticker, g) /\ W.gears[g].character # None
                     THEN _sync(W.gears[g], chr1[W.gears[g].character].sprite)
                     ELSE W.gears[g]]]


(***************************************************************************)
(* Asynchronous calls.  A task is the stack of the calls awaiting each     *)
(* other, innermost first; a frame records the function, the await it is   *)
(* suspended at and its locals.                                            *)
(***************************************************************************)
Frame(fn, pc, g, old, c, slot, item, i, sh, paths) ==
    [ fn |-> fn, pc |-> pc, g |-> g, old |-> old, c |-> c, slot |-> slot,
      item |-> item, i |-> i, sh |-> sh, paths |-> paths,
      had |-> NoGear,    \* history: the attached gear the slot held at the call
      prev |-> None,     \* previousItem of _onInventorySlotRightClick
      from |-> None ]    \* history: the character the gear was on at the call

Idle(t) == tasks[t] = << >>
AllIdle == \A t \in TaskIds : Idle(t)
Top(t) == Head(tasks[t])
At(t, fn, pc) == ~Idle(t) /\ Top(t).fn = fn /\ Top(t).pc = pc

\* the frame is suspended at an await of a load, an unload or a fetch
IOAwait(f) ==
    \/ f.fn = "equip" /\ f.pc \in {"manifest", "load"}
    \/ f.fn \in {"unequip", "setEquippedItem", "clearEquippedItem",
                 "setInventorySlot", "clearInventorySlot", "dropAsLoot"}

\* no continuation of an await is pending: a continuation is a microtask and
\* runs before the next input event or ticker callback
Settled == \A t \in TaskIds : IF tasks[t] = << >> THEN TRUE ELSE IOAwait(Head(tasks[t]))

PlayerOps == {"pickupAndEquip", "equipItem", "unequipSlot", "unequipSlotSilent"}

\* the gears a script holds: one Gear object per item
HeldGears == { << item, 1 >> : item \in Items }

\* a Gear object no reference is left to
Referenced(g, eq, tks) ==
    \/ hist.held /\ g \in HeldGears
    \/ \E c \in Chars, s \in Slots : eq[c][s] = g
    \/ \E t \in TaskIds : \E k \in 1..Len(tks[t]) : tks[t][k].g = g \/ tks[t][k].old = g

Collect(gs, cont, eq, tk, tks) ==
    [g \in GearIds |->
        IF /\ gs[g].live
           /\ ~Referenced(g, eq, tks)
           /\ gs[g].character = None
           /\ ~InSeq(tk, g)
           /\ \A c \in Chars : ~InSeq(cont[c], MainOf(g)) /\ ~InSeq(cont[c], ShadowOf(g))
        THEN NewGear ELSE gs[g]]

\* the world W and the task stacks tks become the next state
Commit(W, tks) ==
    /\ gears' = Collect(W.gears, W.cont, W.eq, W.ticker, tks)
    /\ chr' = W.chr
    /\ containers' = W.cont
    /\ equippedGear' = W.eq
    /\ ticker' = W.ticker
    /\ tasks' = tks

\* `new Gear(...)`: the first unused object of the sprite key base
FreshGear(base) ==
    IF \E k \in 1..MaxInst : ~gears[<< base, k >>].live
    THEN << base, CHOOSE k \in 1..MaxInst :
                    /\ ~gears[<< base, k >>].live
                    /\ \A j \in 1..MaxInst : ~gears[<< base, j >>].live => k <= j >>
    ELSE NoGear

(***************************************************************************)
(* Gear.unequip.                                                           *)
(***************************************************************************)
\* the resets without `this._assetPaths = []`
ResetGear_keepPaths(gr) ==
    [gr EXCEPT !.textures = << >>, !.shadowTextures = << >>,
               !.character = None, !.spriteKey = None,
               !.curAnim = None, !.curDir = NoDir]

\* the final resets of Gear.unequip
ResetGear(gr) ==
    [gr EXCEPT !.textures = << >>, !.shadowTextures = << >>, !.assetPaths = << >>,
               !.character = None, !.spriteKey = None,
               !.curAnim = None, !.curDir = NoDir]

\* unequip that leaves the shadow sprite in the container
UnequipSync_keepShadow(W, g) ==
    LET gr == W.gears[g]
        tk1 == IF gr.tickerFn THEN TickerRemove(W.ticker, g) ELSE W.ticker
        cont1 == [c \in Chars |->
                    IF gr.sprite.on THEN removeChild(W.cont[c], MainOf(g))
                    ELSE W.cont[c]]
        gr1 == [gr EXCEPT !.tickerFn = FALSE, !.sprite = NoSprite,
                          !.shadowSprite = NoSprite, !.released = << >>]
    IN [W EXCEPT !.ticker = tk1, !.cont = cont1,
                 !.gears[g] = IF Len(gr.assetPaths) = 0 THEN ResetGear(gr1) ELSE gr1]

\* Gear.unequip up to its first await: the callback is unregistered and both
\* sprites are removed and destroyed
UnequipSync(W, g) ==
    LET gr == W.gears[g]
        tk1 == IF gr.tickerFn THEN TickerRemove(W.ticker, g) ELSE W.ticker
        cont1 == [c \in Chars |->
                    LET a == IF gr.sprite.on THEN removeChild(W.cont[c], MainOf(g))
                             ELSE W.cont[c]
                    IN IF gr.shadowSprite.on THEN removeChild(a, ShadowOf(g)) ELSE a]
        gr1 == [gr EXCEPT !.tickerFn = FALSE, !.sprite = NoSprite,
                          !.shadowSprite = NoSprite, !.released = << >>]
    IN [W EXCEPT !.ticker = tk1, !.cont = cont1,
                 !.gears[g] = IF Len(gr.assetPaths) = 0 THEN ResetGear(gr1) ELSE gr1]

\* the frames of a call of unequip on gear g in world W (before the call):
\* none when there is no path to unload
UnequipFrames(W, g) ==
    IF Len(W.gears[g].assetPaths) = 0 THEN << >>
    ELSE << Frame("unequip", "unload", g, NoGear, None, None, None, 1, FALSE,
                  W.gears[g].assetPaths) >>

\* `await PIXI.Assets.unload(path)` of Gear.unequip returns
UnequipUnloaded(t) ==
    /\ At(t, "unequip", "unload")
    /\ LET f == Top(t)
           g == f.g
           path == f.paths[f.i]
           gr1 == [gears[g] EXCEPT !.released = Append(@, path)]
       IN /\ assetCache' = assetCache \ { path }
          /\ IF f.i < Len(f.paths)
             THEN Commit([World EXCEPT !.gears[g] = gr1],
                         [tasks EXCEPT ![t] = << [f EXCEPT !.i = f.i + 1] >> \o Tail(@)])
             ELSE Commit([World EXCEPT !.gears[g] = ResetGear(gr1)],
                         [tasks EXCEPT ![t] = Tail(@)])
    /\ UNCHANGED << geo, ent, call >>
    /\ hist' = hist
    /\ UNCHANGED << ui, lootOnGround >>

(***************************************************************************)
(* Gear.equip.                                                             *)
(***************************************************************************)
\* Gear.equip on a gear with no character, up to `await Item.fetchManifest()`
EquipSync(W, g, c) ==
    [W EXCEPT !.gears[g] = [@ EXCEPT !.live = TRUE, !.character = c, !.spriteKey = c,
                                     !.loaded = << >>]]

EquipFrame(g, c, pc) ==
    Frame("equip", pc, g, NoGear, c, None, None, 0, FALSE, << >>)

\* the end of Gear.equip: the sprites are created and the per-tick sync starts
EquipFinish(W, g) ==
    LET W1 == _createSprites(W, g)
    IN [W1 EXCEPT !.gears[g].tickerFn = TRUE, !.ticker = Append(@, g)]

\* _loadSheetTextures pushes the path of sheet n and awaits its load
PushPath(W, g, sh, n) ==
    LET path == SheetPath(W.gears[g].spriteKey, GearBase(g), sh, n)
    IN [W EXCEPT !.gears[g].assetPaths = Append(@, path),
                 !.gears[g].loaded = Append(@, path)]

\* equip goes on after the main sheets: the shadow sheets, if any, else the end
AfterMainSheets(W, t, f) ==
    IF SheetCount(GearBase(f.g), TRUE) > 0
    THEN Commit(PushPath(W, f.g, TRUE, 1),
                [tasks EXCEPT ![t] = << [f EXCEPT !.pc = "load", !.sh = TRUE, !.i = 1] >>
                                     \o Tail(@)])
    ELSE Commit(EquipFinish(W, f.g), [tasks EXCEPT ![t] = Tail(@)])

\* `await this.unequip()` of Gear.equip returns: the new character is recorded
EquipAfterUnequip(t) ==
    /\ At(t, "equip", "afterUnequip")
    /\ LET f == Top(t)
       IN Commit(EquipSync(World, f.g, f.c),
                 [tasks EXCEPT ![t] = << [f EXCEPT !.pc = "manifest"] >> \o Tail(@)])
    /\ UNCHANGED << geo, ent, call >>
    /\ hist' = hist
    /\ UNCHANGED << assetCache, ui, lootOnGround >>

\* `await Item.fetchManifest()` returns: the first sheet is requested
EquipManifest(t) ==
    /\ At(t, "equip", "manifest")
    /\ LET f == Top(t)
       IN IF SheetCount(GearBase(f.g), FALSE) > 0
          THEN Commit(PushPath(World, f.g, FALSE, 1),
                      [tasks EXCEPT ![t] = << [f EXCEPT !.pc = "load", !.sh = FALSE, !.i = 1] >>
                                           \o Tail(@)])
          ELSE AfterMainSheets(World, t, f)
    /\ UNCHANGED << geo, ent, call >>
    /\ hist' = hist
    /\ UNCHANGED << assetCache, ui, lootOnGround >>

\* `await PIXI.Assets.load(fullPath)` returns: the frames of the sheet are parsed
EquipSheetLoaded(t) ==
    /\ At(t, "equip", "load")
    /\ LET f == Top(t)
           g == f.g
           path == SheetPath(gears[g].spriteKey, GearBase(g), f.sh, f.i)
           sheet == SheetTable(GearBase(g), f.sh, f.i)
           W1 == IF f.sh
                 THEN [World EXCEPT !.gears[g].shadowTextures = MergeTable(@, sheet)]
                 ELSE [World EXCEPT !.gears[g].textures = MergeTable(@, sheet)]
       IN /\ assetCache' = assetCache \cup { path }
          /\ IF f.i < SheetCount(GearBase(g), f.sh)
             THEN Commit(PushPath(W1, g, f.sh, f.i + 1),
                         [tasks EXCEPT ![t] = << [f EXCEPT !.i = f.i + 1] >> \o Tail(@)])
             ELSE IF ~f.sh THEN AfterMainSheets(W1, t, f)
             ELSE Commit(EquipFinish(W1, g), [tasks EXCEPT ![t] = Tail(@)])
    /\ UNCHANGED << geo, ent, call >>
    /\ hist' = hist
    /\ UNCHANGED << ui, lootOnGround >>


(***************************************************************************)
(* UI.setEquippedItem / UI.clearEquippedItem (the item of the slot entry). *)
(***************************************************************************)
UIFrame(fn, pc, slot, item) ==
    Frame(fn, pc, NoGear, NoGear, None, slot, item, 0, FALSE, << >>)

\* ui.setEquippedItem(slot, item) up to its first await
SetEquippedFrames(u, slot, item) ==
    IF u.eq[slot] # None
    THEN << UIFrame("setEquippedItem", "unloadIcon", slot, item) >>
    ELSE << UIFrame("setEquippedItem", "loadIcon", slot, item) >>

\* ui.clearEquippedItem(slot) up to its first await
ClearEquippedFrames(u, slot) ==
    IF u.eq[slot] # None
    THEN << UIFrame("clearEquippedItem", "unloadIcon", slot, None) >>
    ELSE << >>

\* an await of setEquippedItem returns: after `entry.item.unloadIcon()` the
\* new icon is loaded, after `item.loadIcon()` the entry holds the item
SetEquippedItemStep(t) ==
    /\ ~Idle(t) /\ Top(t).fn = "setEquippedItem"
    /\ IF Top(t).pc = "unloadIcon"
       THEN /\ tasks' = [tasks EXCEPT ![t] = << [Top(t) EXCEPT !.pc = "loadIcon"] >> \o Tail(@)]
            /\ ui' = ui
       ELSE /\ tasks' = [tasks EXCEPT ![t] = Tail(@)]
            /\ ui' = [ui EXCEPT !.eq[Top(t).slot] = Top(t).item]
    /\ UNCHANGED << geo, ent, call >>
    /\ hist' = hist
    /\ UNCHANGED << gears, chr, containers, equippedGear, ticker, assetCache,
                    lootOnGround >>

\* `await entry.item.unloadIcon()` of clearEquippedItem returns
ClearEquippedIconUnloaded(t) ==
    /\ At(t, "clearEquippedItem", "unloadIcon")
    /\ ui' = [ui EXCEPT !.eq[Top(t).slot] = None]
    /\ tasks' = [tasks EXCEPT ![t] = Tail(@)]
    /\ UNCHANGED << geo, ent, call >>
    /\ hist' = hist
    /\ UNCHANGED << gears, chr, containers, equippedGear, ticker, assetCache,
                    lootOnGround >>

(***************************************************************************)
(* Player: pickupAndEquip, equipItem, unequipSlot, unequipSlotSilent.      *)
(***************************************************************************)
\* the main sprite of gear g is a child of the container of character c
Attached(g, c) == g # NoGear /\ InSeq(containers[c], MainOf(g))

OpFrame(fn, pc, g, old, c, slot, item) ==
    [Frame(fn, pc, g, old, c, slot, item, 0, FALSE, << >>)
        EXCEPT !.had = IF Attached(equippedGear[c][slot], c)
                       THEN equippedGear[c][slot] ELSE NoGear]

\* equipItem that removes the gear of the slot before the new gear is loaded
CallEquipItem_unequipFirst(t, fn, item, rest) ==
    LET c == ThePlayer
        g == FreshGear(item)
        oldGear == equippedGear[c][ItemSlot(item)]
        W0 == IF oldGear # NoGear THEN UnequipSync(World, oldGear) ELSE World
    IN /\ g # NoGear
       /\ Commit(EquipSync(W0, g, c),
                 [tasks EXCEPT ![t] =
                     << EquipFrame(g, c, "manifest"),
                        OpFrame(fn, "equipped", g, NoGear, c, ItemSlot(item), item) >>
                     \o rest])

\* the call `player.equipItem(item)` by task t, below the frames `rest`
CallEquipItem(t, fn, item, rest) ==
    LET c == ThePlayer
        g == FreshGear(item)
    IN /\ g # NoGear
       /\ Commit(EquipSync(World, g, c),
                 [tasks EXCEPT ![t] =
                     << EquipFrame(g, c, "manifest"),
                        OpFrame(fn, "equipped", g, NoGear, c, ItemSlot(item), item) >>
                     \o rest])

\* unequipSlot that removes the gear of the slot before the default gear is loaded
CallUnequipSlot_unequipFirst(t, fn, slot, rest) ==
    LET c == ThePlayer
        oldGear == equippedGear[c][slot]
        base == defaultGearSlots[slot]
        g == IF base # None THEN FreshGear(base) ELSE NoGear
        fr == OpFrame(fn, "equipped", g, oldGear, c, slot, None)
        W0 == IF oldGear # NoGear THEN UnequipSync(World, oldGear) ELSE World
    IN /\ base # None
       /\ g # NoGear
       /\ Commit(EquipSync(W0, g, c),
                 [tasks EXCEPT ![t] = << EquipFrame(g, c, "manifest"), fr >> \o rest])

\* the call `player.unequipSlot(slot)` / `unequipSlotSilent(slot)` by task t
CallUnequipSlot(t, fn, slot, rest) ==
    LET c == ThePlayer
        oldGear == equippedGear[c][slot]
        base == defaultGearSlots[slot]
        g == IF base # None THEN FreshGear(base) ELSE NoGear
        fr == OpFrame(fn, "equipped", g, oldGear, c, slot, None)
    IN IF base # None
       THEN /\ g # NoGear
            /\ Commit(EquipSync(World, g, c),
                      [tasks EXCEPT ![t] = << EquipFrame(g, c, "manifest"), fr >> \o rest])
       ELSE LET W1 == [World EXCEPT !.eq[c][slot] = NoGear]
                fr1 == [fr EXCEPT !.g = NoGear]
            IN IF oldGear # NoGear
               THEN Commit(UnequipSync(W1, oldGear),
                           [tasks EXCEPT ![t] = UnequipFrames(W1, oldGear)
                               \o << [fr1 EXCEPT !.pc = "unequipped"] >> \o rest])
               ELSE IF fn = "unequipSlot"
               THEN Commit(W1, [tasks EXCEPT ![t] = ClearEquippedFrames(ui, slot)
                                   \o << [fr1 EXCEPT !.pc = "ui"] >> \o rest])
               ELSE Commit(W1, [tasks EXCEPT ![t] = << [fr1 EXCEPT !.pc = "ui"] >> \o rest])

\* the code of an operation after its `if (oldGear) await oldGear.unequip()`
AfterOldGear(W, t, f) ==
    LET rest == Tail(tasks[t])
    IN CASE f.fn \in {"pickupAndEquip", "equipItem"} ->
              Commit([W EXCEPT !.eq[f.c][f.slot] = f.g],
                     [tasks EXCEPT ![t] = SetEquippedFrames(ui, f.slot, f.item)
                                          \o << [f EXCEPT !.pc = "ui"] >> \o rest])
         [] f.fn = "unequipSlot" ->
              Commit(W, [tasks EXCEPT ![t] = ClearEquippedFrames(ui, f.slot)
                                             \o << [f EXCEPT !.pc = "ui"] >> \o rest])
         [] f.fn = "unequipSlotSilent" ->
              Commit(W, [tasks EXCEPT ![t] = << [f EXCEPT !.pc = "ui"] >> \o rest])

\* an operation that goes on without unequipping the gear it replaces
OpAfterEquip_keepOld(t) ==
    /\ ~Idle(t) /\ Top(t).fn \in PlayerOps /\ Top(t).pc = "equipped"
    /\ LET f == Top(t)
           swap == f.fn \in {"pickupAndEquip", "equipItem"}
           W1 == IF swap THEN World ELSE [World EXCEPT !.eq[f.c][f.slot] = f.g]
       IN AfterOldGear(W1, t, f)
    /\ UNCHANGED << geo, ent, call >>
    /\ hist' = hist
    /\ UNCHANGED << assetCache, ui, lootOnGround >>

\* `await newGear.equip(this)` / `await defaultGear.equip(this)` returns
OpAfterEquip(t) ==
    /\ ~Idle(t) /\ Top(t).fn \in PlayerOps /\ Top(t).pc = "equipped"
    /\ LET f == Top(t)
           swap == f.fn \in {"pickupAndEquip", "equipItem"}
           oldGear == IF swap THEN equippedGear[f.c][f.slot] ELSE f.old
           W1 == IF swap THEN World ELSE [World EXCEPT !.eq[f.c][f.slot] = f.g]
           f1 == [f EXCEPT !.old = oldGear]
       IN IF oldGear # NoGear
          THEN Commit(UnequipSync(W1, oldGear),
                      [tasks EXCEPT ![t] = UnequipFrames(W1, oldGear)
                          \o << [f1 EXCEPT !.pc = "unequipped"] >> \o Tail(@)])
          ELSE AfterOldGear(W1, t, f1)
    /\ UNCHANGED << geo, ent, call >>
    /\ hist' = hist
    /\ UNCHANGED << assetCache, ui, lootOnGround >>

\* `await oldGear.unequip()` returns
OpAfterUnequip(t) ==
    /\ ~Idle(t) /\ Top(t).fn \in PlayerOps /\ Top(t).pc = "unequipped"
    /\ AfterOldGear(World, t, Top(t))
    /\ UNCHANGED << geo, ent, call >>
    /\ hist' = hist
    /\ UNCHANGED << assetCache, ui, lootOnGround >>

\* the operation returns (after `await ui....` where it has one)
OpReturn(t) ==
    /\ ~Idle(t) /\ Top(t).fn \in PlayerOps /\ Top(t).pc = "ui"
    /\ Commit(World, [tasks EXCEPT ![t] = Tail(@)])
    /\ UNCHANGED << geo, ent, call >>
    /\ hist' = hist
    /\ UNCHANGED << assetCache, ui, lootOnGround >>


(***************************************************************************)
(* createPlayer and Player.loadDefaultGear.                                *)
(***************************************************************************)
\* Object.entries(defaultGearSlots) of Man: head, then legs
DefaultOrder == << "head", "legs" >>

\* loadDefaultGear creates and equips the gear of its i-th default slot
LoadDefaultGearStep(t, i, rest) ==
    LET c == ThePlayer
        slot == DefaultOrder[i]
        g == FreshGear(defaultGearSlots[slot])
    IN /\ g # NoGear
       /\ Commit(EquipSync(World, g, c),
                 [tasks EXCEPT ![t] =
                     << EquipFrame(g, c, "manifest"),
                        [OpFrame("loadDefaultGear", "equipped", g, NoGear, c, slot, None)
                            EXCEPT !.i = i] >> \o rest])

\* `await gear.equip(this)` of loadDefaultGear returns
LoadDefaultGearAfterEquip(t) ==
    /\ At(t, "loadDefaultGear", "equipped")
    /\ LET f == Top(t)
           W1 == [World EXCEPT !.eq[f.c][f.slot] = f.g]
       IN IF f.i < Len(DefaultOrder)
          THEN LET slot == DefaultOrder[f.i + 1]
                   g == FreshGear(defaultGearSlots[slot])
               IN /\ g # NoGear
                  /\ Commit(EquipSync(W1, g, f.c),
                            [tasks EXCEPT ![t] =
                                << EquipFrame(g, f.c, "manifest"),
                                   [f EXCEPT !.g = g, !.slot = slot, !.i = f.i + 1,
                                             !.had = NoGear] >>
                                \o Tail(@)])
          ELSE Commit(W1, [tasks EXCEPT ![t] = Tail(@)])
    /\ UNCHANGED << geo, ent, call >>
    /\ hist' = hist
    /\ UNCHANGED << assetCache, ui, lootOnGround >>

\* createPlayer: the player's textures are loaded; the default gear follows
CreatePlayer ==
    /\ AllIdle /\ ~hist.created /\ hist.ops = 0
    /\ LoadDefaultGearStep(1, 1,
          << Frame("createPlayer", "gear", NoGear, NoGear, ThePlayer, None, None,
                   0, FALSE, << >>) >>)
    /\ UNCHANGED << geo, ent, call >>
    /\ hist' = [hist EXCEPT !.ops = 1]
    /\ UNCHANGED << assetCache, ui, lootOnGround >>

\* `await player.loadDefaultGear()` of createPlayer returns
CreatePlayerAfterGear(t) ==
    /\ At(t, "createPlayer", "gear")
    /\ Commit(startIdlePingPong(World, Top(t).c), [tasks EXCEPT ![t] = Tail(@)])
    /\ UNCHANGED << geo, ent, call >>
    /\ hist' = [hist EXCEPT !.created = TRUE, !.ops = 0]
    /\ UNCHANGED << assetCache, ui, lootOnGround >>

\* a further call of loadDefaultGear on a player that already has gear
LoadDefaultGearAgain ==
    /\ AllIdle /\ hist.created /\ hist.ops < MaxOps
    /\ LoadDefaultGearStep(1, 1, << >>)
    /\ UNCHANGED << geo, ent, call >>
    /\ hist' = [hist EXCEPT !.ops = @ + 1, !.reloaded = TRUE]
    /\ UNCHANGED << assetCache, ui, lootOnGround >>

(***************************************************************************)
(* The Player operations called one after another.                         *)
(***************************************************************************)
CanStart == AllIdle /\ hist.created /\ hist.ops < MaxOps

PickupAndEquip(item) ==
    /\ CanStart
    /\ item \in lootOnGround
    /\ CallEquipItem(1, "pickupAndEquip", item, << >>)
    /\ lootOnGround' = lootOnGround \ { item }
    /\ UNCHANGED << geo, ent, call >>
    /\ hist' = [hist EXCEPT !.ops = @ + 1]
    /\ UNCHANGED << assetCache, ui >>

EquipItem(item) ==
    /\ CanStart
    /\ item \notin lootOnGround
    /\ CallEquipItem(1, "equipItem", item, << >>)
    /\ UNCHANGED << geo, ent, call >>
    /\ hist' = [hist EXCEPT !.ops = @ + 1]
    /\ UNCHANGED << assetCache, ui, lootOnGround >>

UnequipSlot(slot) ==
    /\ CanStart
    /\ CallUnequipSlot(1, "unequipSlot", slot, << >>)
    /\ UNCHANGED << geo, ent, call >>
    /\ hist' = [hist EXCEPT !.ops = @ + 1]
    /\ UNCHANGED << assetCache, ui, lootOnGround >>

UnequipSlotSilent(slot) ==
    /\ CanStart
    /\ CallUnequipSlot(1, "unequipSlotSilent", slot, << >>)
    /\ UNCHANGED << geo, ent, call >>
    /\ hist' = [hist EXCEPT !.ops = @ + 1]
    /\ UNCHANGED << assetCache, ui, lootOnGround >>

(***************************************************************************)
(* Input, game loop and ticker.                                            *)
(***************************************************************************)
\* a click on the ground: movePlayerToPointer -> player.moveToward
MoveToward(d) ==
    /\ hist.created
    /\ Settled
    /\ Commit(moveToward(World, ThePlayer, d), tasks)
    /\ UNCHANGED << geo, ent, call >>
    /\ hist' = hist
    /\ UNCHANGED << assetCache, ui, lootOnGround >>

\* Character.update when the target is reached: stopWalkAnimation
UpdateArrive ==
    /\ hist.created
    /\ Settled
    /\ chr[ThePlayer].hasTarget
    /\ Commit(stopWalkAnimation([World EXCEPT !.chr[ThePlayer].hasTarget = FALSE],
                                ThePlayer), tasks)
    /\ UNCHANGED << geo, ent, call >>
    /\ hist' = hist
    /\ UNCHANGED << assetCache, ui, lootOnGround >>

\* one tick of PIXI.Ticker.shared
Tick(adv) ==
    /\ Settled
    /\ Commit(TickWorld(World, adv), tasks)
    /\ UNCHANGED << geo, ent, call >>
    /\ hist' = hist
    /\ UNCHANGED << assetCache, ui, lootOnGround >>

(***************************************************************************)
(* Collision geometry.  A point is [x, y] and a polygon a sequence of      *)
(* points.  The code divides an edge normal by its length; the normal is   *)
(* kept here with its squared length l2, so that the unit axis is          *)
(* (x, y) / sqrt(l2), a projection is a dot product / sqrt(l2), and a push *)
(* vector [x, y, d] stands for (x / d, y / d): the arithmetic is exact.    *)
(***************************************************************************)
Pt(x, y) == [x |-> x, y |-> y]

\* the push vector `null` and the zero vector
NoPush == [x |-> 0, y |-> 0, d |-> 0]
ZeroPush == [x |-> 0, y |-> 0, d |-> 1]

\* getAxes: the normal of every edge of non-zero length, in edge order
getAxes(poly) ==
    LET n == Len(poly)
        axis(i) ==
            LET p1 == poly[i]
                p2 == poly[(i % n) + 1]
                edgeX == p2.x - p1.x
                edgeY == p2.y - p1.y
            IN [x |-> 0 - edgeY, y |-> edgeX, l2 |-> edgeX * edgeX + edgeY * edgeY]
    IN SelectSeq([i \in 1..n |-> axis(i)], LAMBDA a : a.l2 # 0)

Dot(p, axis) == p.x * axis.x + p.y * axis.y

\* project: the least and the greatest dot product of the points with the axis
project(poly, axis) ==
    LET dots == { Dot(poly[i], axis) : i \in 1..Len(poly) }
    IN [min |-> CHOOSE m \in dots : \A e \in dots : m <= e,
        max |-> CHOOSE m \in dots : \A e \in dots : e <= m]

\* polygonCentroid: the average of the vertices, as the sums and the count
polygonCentroid(poly) ==
    LET sum[i \in 0..Len(poly)] ==
            IF i = 0 THEN Pt(0, 0)
            ELSE Pt(sum[i - 1].x + poly[i].x, sum[i - 1].y + poly[i].y)
    IN [x |-> sum[Len(poly)].x, y |-> sum[Len(poly)].y, n |-> Len(poly)]

\* the loop with the gap test `maxA < minB || maxB < minA`
RECURSIVE SatScan_touching(_, _, _, _, _)
SatScan_touching(polyA, polyB, axes, i, best) ==
    IF i > Len(axes) THEN best
    ELSE LET axis == axes[i]
             a == project(polyA, axis)
             b == project(polyB, axis)
         IN IF a.max < b.min \/ b.max < a.min
            THEN [gap |-> TRUE, o |-> 0, axis |-> axis]
            ELSE LET overlap == Min(a.max - b.min, b.max - a.min)
                 IN IF best.axis.l2 = 0
                       \/ overlap * overlap * best.axis.l2 < best.o * best.o * axis.l2
                    THEN SatScan_touching(polyA, polyB, axes, i + 1,
                                 [gap |-> FALSE, o |-> overlap, axis |-> axis])
                    ELSE SatScan_touching(polyA, polyB, axes, i + 1, best)

\* the loop of satOverlap over the axes: `gap` when an axis separates, else
\* the first axis of least overlap (o / sqrt(l2) compared by cross products)
RECURSIVE SatScan(_, _, _, _, _)
SatScan(polyA, polyB, axes, i, best) ==
    IF i > Len(axes) THEN best
    ELSE LET axis == axes[i]
             a == project(polyA, axis)
             b == project(polyB, axis)
         IN IF a.max <= b.min \/ b.max <= a.min
            THEN [gap |-> TRUE, o |-> 0, axis |-> axis]
            ELSE LET overlap == Min(a.max - b.min, b.max - a.min)
                 IN IF best.axis.l2 = 0
                       \/ overlap * overlap * best.axis.l2 < best.o * best.o * axis.l2
                    THEN SatScan(polyA, polyB, axes, i + 1,
                                 [gap |-> FALSE, o |-> overlap, axis |-> axis])
                    ELSE SatScan(polyA, polyB, axes, i + 1, best)

\* satOverlap: null, or the push of polyA along the axis of least overlap,
\* turned to the side of polyA's centroid
satOverlap(polyA, polyB) ==
    LET axes == getAxes(polyA) \o getAxes(polyB)
        found == SatScan(polyA, polyB, axes, 1,
                         [gap |-> FALSE, o |-> 0, axis |-> [x |-> 0, y |-> 0, l2 |-> 0]])
        mtvAxis == found.axis
        centroidA == polygonCentroid(polyA)
        centroidB == polygonCentroid(polyB)
        dx == centroidA.x * centroidB.n - centroidB.x * centroidA.n
        dy == centroidA.y * centroidB.n - centroidB.y * centroidA.n
        dot == dx * mtvAxis.x + dy * mtvAxis.y
    IN IF found.gap \/ mtvAxis.l2 = 0 THEN NoPush
       ELSE IF dot < 0
       THEN [x |-> (0 - mtvAxis.x) * found.o, y |-> (0 - mtvAxis.y) * found.o,
             d |-> mtvAxis.l2]
       ELSE [x |-> mtvAxis.x * found.o, y |-> mtvAxis.y * found.o, d |-> mtvAxis.l2]

\* the least and greatest coordinate of a polygon
MinOf(S) == CHOOSE m \in S : \A e \in S : m <= e
MaxOf(S) == CHOOSE m \in S : \A e \in S : e <= m
XsOf(poly) == { poly[i].x : i \in 1..Len(poly) }
YsOf(poly) == { poly[i].y : i \in 1..Len(poly) }

\* aabbOverlap with maxBx in the place of minBx in the first test
aabbOverlap_maxBx(polyA, polyB) ==
    ~( \/ MaxOf(XsOf(polyA)) <= MaxOf(XsOf(polyB))
       \/ MaxOf(XsOf(polyB)) <= MinOf(XsOf(polyA))
       \/ MaxOf(YsOf(polyA)) <= MinOf(YsOf(polyB))
       \/ MaxOf(YsOf(polyB)) <= MinOf(YsOf(polyA)) )

\* aabbOverlap: the bounding boxes intersect with positive area
aabbOverlap(polyA, polyB) ==
    ~( \/ MaxOf(XsOf(polyA)) <= MinOf(XsOf(polyB))
       \/ MaxOf(XsOf(polyB)) <= MinOf(XsOf(polyA))
       \/ MaxOf(YsOf(polyA)) <= MinOf(YsOf(polyB))
       \/ MaxOf(YsOf(polyB)) <= MinOf(YsOf(polyA)) )

\* totalPushX += mtv.x; totalPushY += mtv.y
AddPush(total, mtv) ==
    [x |-> total.x * mtv.d + mtv.x * total.d,
     y |-> total.y * mtv.d + mtv.y * total.d,
     d |-> total.d * mtv.d]

\* resolveCollisions: the sum of the pushes out of the colliders whose
\* bounding box the moving polygon's bounding box intersects
resolveCollisions(movingPoly, colliders) ==
    LET total[i \in 0..Len(colliders)] ==
            IF i = 0 THEN ZeroPush
            ELSE IF ~aabbOverlap(movingPoly, colliders[i]) THEN total[i - 1]
            ELSE LET mtv == satOverlap(movingPoly, colliders[i])
                 IN IF mtv # NoPush THEN AddPush(total[i - 1], mtv) ELSE total[i - 1]
    IN total[Len(colliders)]

\* bPoly of resolveBoundaryCollisions (width and height are even, as those
\* of Farm._spawnBoundaries)
BoundaryPoly(b) ==
    << Pt(b.x, b.y - b.height \div 2),
       Pt(b.x + b.width, b.y - b.height \div 2),
       Pt(b.x + b.width, b.y + b.height \div 2),
       Pt(b.x, b.y + b.height \div 2) >>

\* resolveBoundaryCollisions
resolveBoundaryCollisions(movingPoly, boundaries) ==
    LET total[i \in 0..Len(boundaries)] ==
            IF i = 0 THEN ZeroPush
            ELSE LET bPoly == BoundaryPoly(boundaries[i])
                 IN IF ~aabbOverlap(movingPoly, bPoly) THEN total[i - 1]
                    ELSE LET mtv == satOverlap(movingPoly, bPoly)
                         IN IF mtv # NoPush THEN AddPush(total[i - 1], mtv)
                            ELSE total[i - 1]
    IN total[Len(boundaries)]

(***************************************************************************)
(* Movement.  Positions are whole units and angles tenths of a degree.     *)
(* The targets of the model lie on the horizontal or the vertical through  *)
(* the character and the frame deltas make every step a whole number, so   *)
(* that the square root, the arctangent, the cosine and the sine of        *)
(* Character.update are exact.                                             *)
(***************************************************************************)
Abs(n) == IF n < 0 THEN 0 - n ELSE n

\* this.angles of an Entity of `directions` facing directions, in tenths of
\* a degree: i * (360 / directions), less 360 when above 180, sorted
\* ascending (directions divides 3600 here)
anglesOf(directions) ==
    LET step == 3600 \div directions
        raw == { IF i * step > 1800 THEN i * step - 3600 ELSE i * step :
                    i \in 0..(directions - 1) }
        sorted[k \in 0..Cardinality(raw)] ==
            IF k = 0 THEN << >>
            ELSE Append(sorted[k - 1],
                        CHOOSE a \in raw :
                            Cardinality({ b \in raw : b < a }) = k - 1)
    IN sorted[Cardinality(raw)]

\* the 16 directions of the characters
angles == anglesOf(16)

\* the loop of findClosestDirection from the i-th angle on that keeps the
\* last of the equally close directions
RECURSIVE ClosestScan_last(_, _, _, _, _)
ClosestScan_last(A, normalized, i, closest, minDiff) ==
    IF i > Len(A) THEN closest
    ELSE LET d == Abs(normalized - A[i])
             diff == IF d > 1800 THEN 3600 - d ELSE d
         IN IF diff <= minDiff
            THEN ClosestScan_last(A, normalized, i + 1, A[i], diff)
            ELSE ClosestScan_last(A, normalized, i + 1, closest, minDiff)

\* the loop of findClosestDirection from the i-th angle on: a direction
\* replaces the closest one only when it is strictly nearer
RECURSIVE ClosestScan(_, _, _, _, _)
ClosestScan(A, normalized, i, closest, minDiff) ==
    IF i > Len(A) THEN closest
    ELSE LET d == Abs(normalized - A[i])
             diff == IF d > 1800 THEN 3600 - d ELSE d
         IN IF diff < minDiff
            THEN ClosestScan(A, normalized, i + 1, A[i], diff)
            ELSE ClosestScan(A, normalized, i + 1, closest, minDiff)

\* one turn taken off or added, once
Normalize_once(angle) ==
    IF angle > 1800 THEN angle - 3600
    ELSE IF angle < -1800 THEN angle + 3600 ELSE angle

\* the two while loops of findClosestDirection: 360 is taken off while the
\* angle is above 180, and added while it is below -180
RECURSIVE Normalize(_)
Normalize(angle) ==
    IF angle > 1800 THEN Normalize(angle - 3600)
    ELSE IF angle < -1800 THEN Normalize(angle + 3600)
    ELSE angle

\* Entity.findClosestDirection of an entity whose this.angles is A: the
\* first direction, in ascending order, of least circular distance to the
\* angle (minDiff starts at Infinity)
closestDirection(A, angle) ==
    \* Infinity is 3601 tenths of a degree
    ClosestScan(A, Normalize(angle), 1, A[1], 3601)

\* Entity.findClosestDirection of a character
findClosestDirection(angle) == closestDirection(angles, angle)

\* Math.atan2(dy, dx) * (180 / Math.PI): exact on the axes and the
\* diagonals; elsewhere the multiple of 22.5 degrees nearest to the angle
\* (the tangents of 11.25, 33.75, 56.25 and 78.75 degrees bound the
\* sectors), which findClosestDirection maps to the same direction
Atan2Deg(dy, dx) ==
    LET ax == Abs(dx)
        ay == Abs(dy)
        a == CASE ay = 0 -> 0
               [] ax = 0 -> 900
               [] ay * 100000 < ax * 19891 -> 0
               [] ay * 100000 < ax * 66818 -> 225
               [] ay * 100000 < ax * 149661 -> 450
               [] ay * 100000 < ax * 502734 -> 675
               [] OTHER -> 900
        b == IF dx < 0 THEN 1800 - a ELSE a
    IN IF dy < 0 THEN 0 - b ELSE b

\* this.speed: Man / Woman, the guide of Farm._spawnNpcs, the enemies of
\* Farm._spawnEnemies
Speed(c) ==
    CASE c = TheNpc -> 50
      [] c = TheEnemy -> 200
      [] OTHER -> 250

\* the distance travelled in one update towards a target on an axis:
\* effectiveSpeed * (delta / 60), effectiveSpeed being speed on the
\* horizontal and speed / 2 on the vertical
StepOf(c, dx, dy, delta) ==
    IF dy = 0 THEN (Speed(c) * delta) \div 60 ELSE (Speed(c) * delta) \div 120

\* the offset of the target and its distance when it lies on an axis
TargetDx(ch) == ch.targetPosition.x - ch.pos.x
TargetDy(ch) == ch.targetPosition.y - ch.pos.y
OnAxis(ch) == TargetDx(ch) = 0 \/ TargetDy(ch) = 0
Distance(ch) == Abs(TargetDx(ch)) + Abs(TargetDy(ch))
Sign(n) == IF n < 0 THEN -1 ELSE IF n > 0 THEN 1 ELSE 0

NoTarget == Pt(0, 0)

\* health and mana are counted in sixtieths of a point, the regeneration of
\* one frame (delta = 1) at healthRegen = 1; Enemy sets maxHealth to the
\* health of its definition (10 for the goblins of Farm._spawnEnemies)
Unit == 60
maxHealth(c) == IF c = TheEnemy THEN 10 * Unit ELSE 100 * Unit
maxMana(c) == 100 * Unit
healthRegen == 1
manaRegen == 1

\* the regeneration of Character.update: current + regen * (delta / 60),
\* capped at the maximum, of a value below the maximum
regenerate(W, c, delta) ==
    LET ch == W.chr[c]
        health == IF healthRegen > 0 /\ ch.currentHealth < maxHealth(c)
                  THEN Min(maxHealth(c), ch.currentHealth + healthRegen * delta)
                  ELSE ch.currentHealth
        mana == IF manaRegen > 0 /\ ch.currentMana < maxMana(c)
                THEN Min(maxMana(c), ch.currentMana + manaRegen * delta)
                ELSE ch.currentMana
    IN [W EXCEPT !.chr[c].currentHealth = health,
                 !.chr[c].currentMana = mana]

\* the NaN guard of Character.update: the position is that of the
\* container again, the target is cleared, the character idles
resetPosition(W, c) ==
    stopWalkAnimation(
        [W EXCEPT !.chr[c].pos = W.chr[c].container,
                  !.chr[c].nan = FALSE,
                  !.chr[c].hasTarget = FALSE,
                  !.chr[c].targetPosition = NoTarget], c)

\* the step without the test for arrival
approach_neverArrives(W, c, delta) ==
    LET ch == W.chr[c]
        dx == TargetDx(ch)
        dy == TargetDy(ch)
        moved == Min(StepOf(c, dx, dy, delta), Distance(ch))
        x == ch.pos.x + Sign(dx) * moved
        y == ch.pos.y + Sign(dy) * moved
    IN [W EXCEPT !.chr[c].pos = Pt(x, y), !.chr[c].container = Pt(x, y)]

\* the step with ratio = speed / distance, not clamped
approach_unclamped(W, c, delta) ==
    LET ch == W.chr[c]
        dx == TargetDx(ch)
        dy == TargetDy(ch)
    IN IF dx * dx + dy * dy < 25
       THEN stopWalkAnimation(
                [W EXCEPT !.chr[c].hasTarget = FALSE,
                          !.chr[c].targetPosition = NoTarget], c)
       ELSE LET moved == StepOf(c, dx, dy, delta)
                x == ch.pos.x + Sign(dx) * moved
                y == ch.pos.y + Sign(dy) * moved
            IN [W EXCEPT !.chr[c].pos = Pt(x, y),
                         !.chr[c].container = Pt(x, y)]

\* Character.update from the distance test on: arrival within 5 units, else
\* the step towards the target, clamped by ratio = min(speed / distance, 1),
\* and the container synced
approach(W, c, delta) ==
    LET ch == W.chr[c]
        dx == TargetDx(ch)
        dy == TargetDy(ch)
        distance == Distance(ch)
    IN IF dx * dx + dy * dy < 25
       THEN stopWalkAnimation(
                [W EXCEPT !.chr[c].hasTarget = FALSE,
                          !.chr[c].targetPosition = NoTarget], c)
       ELSE LET speed == StepOf(c, dx, dy, delta)
                moved == Min(speed, distance)      \* distance * ratio
                x == ch.pos.x + Sign(dx) * moved
                y == ch.pos.y + Sign(dy) * moved
            IN [W EXCEPT !.chr[c].pos = Pt(x, y),
                         !.chr[c].container = Pt(x, y)]

\* Character.update that clears the target on arrival and keeps walking
update_keepsWalking(W, c, delta) ==
    LET W1 == regenerate(W, c, delta)
        ch == W1.chr[c]
    IN IF ~ch.hasTarget THEN W1
       ELSE IF ch.nan THEN resetPosition(W1, c)
       ELSE IF TargetDx(ch) * TargetDx(ch) + TargetDy(ch) * TargetDy(ch) < 25
       THEN [W1 EXCEPT !.chr[c].hasTarget = FALSE,
                       !.chr[c].targetPosition = NoTarget]
       ELSE approach(W1, c, delta)

\* Character.update that regenerates only on the way to a target
update_regenMoving(W, c, delta) ==
    LET ch == W.chr[c]
    IN IF ~ch.hasTarget THEN W
       ELSE IF ch.nan THEN resetPosition(regenerate(W, c, delta), c)
       ELSE approach(regenerate(W, c, delta), c, delta)

\* Character.update without the NaN guard: every sum with NaN is NaN, every
\* comparison with NaN is false, and the container is synced to NaN
update_noGuard(W, c, delta) ==
    LET W1 == regenerate(W, c, delta)
        ch == W1.chr[c]
    IN IF ~ch.hasTarget THEN W1
       ELSE IF ch.nan THEN W1
       ELSE approach(W1, c, delta)

\* Character.update: the regeneration of health and mana; nothing more
\* without a target; the NaN guard; then the movement
update(W, c, delta) ==
    LET W1 == regenerate(W, c, delta)
        ch == W1.chr[c]
    IN IF ~ch.hasTarget THEN W1
       ELSE IF ch.nan THEN resetPosition(W1, c)
       ELSE approach(W1, c, delta)

\* the direction from a character towards a point: findClosestDirection of
\* atan2; of a NaN angle every comparison of the scan is false and the
\* first direction is returned
DirectionTo(ch, p) ==
    IF ch.nan THEN angles[1]
    ELSE findClosestDirection(Atan2Deg(p.y - ch.pos.y, p.x - ch.pos.x))

\* Player / NPC / Enemy.moveToward(worldX, worldY)
moveTowardPoint(W, c, p) ==
    moveToward([W EXCEPT !.chr[c].targetPosition = p], c,
               DirectionTo(W.chr[c], p))

\* the direction from a character towards the player
FacingPlayer(W, c) ==
    IF W.chr[ThePlayer].nan THEN angles[1]
    ELSE DirectionTo(W.chr[c], W.chr[ThePlayer].pos)

\* NPC.faceEntity(player)
faceEntity(W, c) ==
    LET ch == W.chr[c]
        W1 == [W EXCEPT !.chr[c].direction = FacingPlayer(W, c)]
        idleFrames == _getFrames(CharTable, "idle", W1.chr[c].direction)
    IN IF ~ch.isWalking /\ idleFrames.len > 0
       THEN startIdlePingPong(
                [W1 EXCEPT !.chr[c].sprite = SetTextures(@, idleFrames)], c)
       ELSE W1

\* NPC.interact of an NPC that has dialog lines
interact(W, c) ==
    faceEntity(
        stopWalkAnimation(
            [W EXCEPT !.chr[c].isInteracting = TRUE,
                      !.chr[c].hasTarget = FALSE,
                      !.chr[c].targetPosition = NoTarget], c), c)

\* NPC.update up to the wander test: nothing while interacting, else the
\* base movement
npcUpdate(W, c, delta) ==
    IF W.chr[c].isInteracting THEN W ELSE update(W, c, delta)

\* Enemy.die; destroy() takes the container out of its parent
die(W, c) ==
    [stopWalkAnimation(
        [W EXCEPT !.chr[c].isAlive = FALSE,
                  !.chr[c].state = "idle",
                  !.chr[c].hasTarget = FALSE,
                  !.chr[c].targetPosition = NoTarget], c)
     EXCEPT !.chr[c].inArea = FALSE]

\* a takeDamage that kills without die()
takeDamage_noDie(W, c, amount) ==
    IF ~W.chr[c].isAlive THEN W
    ELSE IF W.chr[c].health - amount <= 0
         THEN [W EXCEPT !.chr[c].health = 0]
         ELSE [W EXCEPT !.chr[c].health = @ - amount]

\* Enemy.takeDamage
takeDamage(W, c, amount) ==
    IF ~W.chr[c].isAlive THEN W
    ELSE IF W.chr[c].health - amount <= 0
         THEN die([W EXCEPT !.chr[c].health = 0], c)
         ELSE [W EXCEPT !.chr[c].health = @ - amount]

\* attackRange and aggroRange of the goblin underlings of Farm._spawnEnemies
attackRange == 150
aggroRange == 300

\* Enemy.tryAttack: turns to the player when the cooldown has elapsed
tryAttack(W, c, ready) ==
    IF ready THEN [W EXCEPT !.chr[c].direction = FacingPlayer(W, c)]
    ELSE W

\* F applied to the value of v, v being evaluated once
Eval(v, F(_)) == CHOOSE r \in { F(w) : w \in {v} } : TRUE

\* Enemy.update after the base movement: attack within attackRange of the
\* player, chase within aggroRange, else give up a chase; a distance that
\* is NaN is within no range
enemyAggro(W1, c, ready) ==
    LET pl == W1.chr[ThePlayer].pos
        e == W1.chr[c]
        isNaN == W1.chr[ThePlayer].nan \/ e.nan
        dist2 == (pl.x - e.pos.x) * (pl.x - e.pos.x)
                 + (pl.y - e.pos.y) * (pl.y - e.pos.y)
    IN IF ~isNaN /\ dist2 <= attackRange * attackRange
       THEN tryAttack(
                stopWalkAnimation(
                    [W1 EXCEPT !.chr[c].state = "attack",
                               !.chr[c].hasTarget = FALSE,
                               !.chr[c].targetPosition = NoTarget], c),
                c, ready)
       ELSE IF ~isNaN /\ dist2 <= aggroRange * aggroRange
       THEN moveTowardPoint([W1 EXCEPT !.chr[c].state = "chase"], c, pl)
       ELSE IF e.state = "chase"
       THEN stopWalkAnimation([W1 EXCEPT !.chr[c].state = "idle"], c)
       ELSE W1

\* Enemy.update: patrol when idle; patrol is << >>, or holds the point
\* pickPatrolTarget draws when Math.random() < 0.005
enemyPatrol(W2, c, patrol) ==
    IF W2.chr[c].state = "idle" /\ ~W2.chr[c].hasTarget /\ patrol # << >>
    THEN [moveTowardPoint(W2, c, patrol[1]) EXCEPT !.chr[c].state = "patrol"]
    ELSE W2

\* Enemy.update: finished patrolling
enemyPatrolDone(W3, c) ==
    IF W3.chr[c].state = "patrol" /\ ~W3.chr[c].hasTarget
    THEN [W3 EXCEPT !.chr[c].state = "idle"]
    ELSE W3

\* Enemy.update; ready is the cooldown test of tryAttack
enemyUpdate(W, c, delta, patrol, ready) ==
    IF ~W.chr[c].isAlive THEN W
    ELSE Eval(update(W, c, delta), LAMBDA W1 :
         Eval(enemyAggro(W1, c, ready), LAMBDA W2 :
         Eval(enemyPatrol(W2, c, patrol), LAMBDA W3 :
              enemyPatrolDone(W3, c))))

(***************************************************************************)
(* Initial state: the textures of the characters are loaded (initSprite),  *)
(* the area has spawned its loot, createPlayer is about to load the gear.  *)
(***************************************************************************)
InitSprite ==
    LET firstAnim == CharTable[1].anim
        dirs == CharTable[1].dirs
        first == dirs[FirstDirIdx(dirs)]
    IN [ sprite |-> [ tex |-> Frames(firstAnim, first.dir, first.len), frame |-> 0,
                      playing |-> FALSE, loop |-> TRUE, fwd |-> TRUE,
                      onComplete |-> FALSE ],
         direction |-> first.dir,
         isWalking |-> FALSE,
         hasTarget |-> FALSE,
         idlePingPongForward |-> TRUE ]

\* where the area places the characters
StartPosition(c) ==
    CASE c = TheEnemy -> Pt(390, 100)
      [] c = TheNpc -> Pt(100, 40)
      [] OTHER -> Pt(100, 100)

\* health of the goblin underlings of Farm._spawnEnemies
EnemyHealth == 10

\* the fields set by the constructors of Entity, Character, NPC and Enemy
InitCharacter(c) ==
    [ pos |-> StartPosition(c),
      nan |-> FALSE,                   \* x or y is NaN; pos is then NaNPt
      container |-> StartPosition(c),
      currentHealth |-> 100 * Unit,
      currentMana |-> 100 * Unit,
      targetPosition |-> NoTarget,     \* meaningful while hasTarget
      isInteracting |-> FALSE,
      isAlive |-> TRUE,
      state |-> "idle",
      health |-> IF c = TheEnemy THEN EnemyHealth ELSE 0,   \* Enemy.health
      inArea |-> TRUE ]                \* container.parent is the area's

\* UI._drag when nothing is dragged
NoDrag == [source |-> None, slot |-> None, idx |-> 0, item |-> None]

\* the movement call made by the last step: the method, the character, the
\* animation state the call found (prev), whether it found the position
\* NaN (nan), and for an update whether it found
\* the target within 5 units (near) or within the step of the frame (reach)
Call(op, c, delta) ==
    LET moving == op = "update" /\ c \in Characters /\ chr[c].hasTarget
                     /\ ~chr[c].nan
        close == TargetDx(chr[c]) * TargetDx(chr[c])
                    + TargetDy(chr[c]) * TargetDy(chr[c]) < 25
    IN [ op |-> op, c |-> c,
         prev |-> IF c \in Characters
                  THEN [ direction |-> chr[c].direction,
                         frame |-> chr[c].sprite.frame,
                         isWalking |-> chr[c].isWalking ]
                  ELSE [ direction |-> 0, frame |-> 0, isWalking |-> FALSE ],
         nan |-> c \in Characters /\ chr[c].nan,
         near |-> moving /\ close,
         reach |-> moving /\ ~close
                   /\ StepOf(c, TargetDx(chr[c]), TargetDy(chr[c]), delta)
                        >= Distance(chr[c]) ]

InitLoot == {"simpleshirt", "simplepants"}
InitInventory == << >>

\* the characters as their constructors and initSprite leave them
InitChr == [c \in Characters |-> InitSprite @@ InitCharacter(c)]

\* the program around characters chr0
InitAround(chr0) ==
    /\ gears = [g \in GearIds |-> NewGear]
    /\ chr = chr0
    /\ containers = [c \in Chars |->
                       IF c = ThePlayer THEN << EntityShadow(c), CharSprite(c) >>
                       ELSE << CharSprite(c) >>]
    /\ equippedGear = [c \in Chars |-> [s \in Slots |-> NoGear]]
    /\ ticker = << >>
    /\ assetCache = {}
    /\ tasks = [t \in TaskIds |-> << >>]
    /\ ui = [ eq |-> [s \in Slots |-> None],
              inv |-> [i \in 1..InvSize |->
                         IF i <= Len(InitInventory) THEN InitInventory[i] ELSE None],
              busy |-> FALSE,
              drag |-> NoDrag ]
    /\ lootOnGround = InitLoot
    /\ hist = [ ops |-> 0, created |-> FALSE, reloaded |-> FALSE, held |-> FALSE,
                moves |-> 0, last |-> Call(None, None, 0) ]

InitProgram == InitAround(InitChr)

\* no call of a collision function has been made
NoGeo == [op |-> None, a |-> << >>, b |-> << >>, c |-> << >>, n |-> 0,
          boundaries |-> << >>, r |-> NoPush]

\* no call has been made
NoCall == [op |-> None]

\* the Entity after its constructor
NewEntity ==
    [ textures |-> FALSE,           \* this.textures holds an animation
      shadowTextures |-> "unset",   \* unset, "empty" ({}), or "frames"
      sprite |-> 0,                 \* this.sprite: the call that made it, or 0
      shadowSprite |-> 0,
      children |-> << >>,           \* container.children
      shadowTickerFn |-> 0,         \* this._shadowTickerFn: its call, or 0
      tickerFns |-> {},             \* its callbacks on PIXI.Ticker.shared
      parent |-> FALSE,             \* container.parent is the world
      inits |-> 0,                  \* calls of initSprite so far
      last |-> None ]

Init ==
    /\ InitProgram
    /\ geo = NoGeo
    /\ ent = NewEntity
    /\ call = NoCall

\* the steps of the asynchronous calls in flight
TaskStep ==
    \E t \in TaskIds :
        \/ EquipManifest(t)
        \/ EquipSheetLoaded(t)
        \/ UnequipUnloaded(t)
        \/ SetEquippedItemStep(t)
        \/ ClearEquippedIconUnloaded(t)
        \/ OpAfterEquip(t)
        \/ OpAfterUnequip(t)
        \/ OpReturn(t)
        \/ LoadDefaultGearAfterEquip(t)
        \/ CreatePlayerAfterGear(t)

Environment ==
    \/ \E d \in Dirs : MoveToward(d)
    \/ UpdateArrive
    \/ \E adv \in BOOLEAN : Tick(adv)

Next ==
    \/ CreatePlayer
    \/ \E item \in Items : PickupAndEquip(item)
    \/ \E item \in Items : EquipItem(item)
    \/ \E slot \in Slots : UnequipSlot(slot)
    \/ \E slot \in Slots : UnequipSlotSilent(slot)
    \/ TaskStep
    \/ Environment

Spec == Init /\ [][Next]_vars

(***************************************************************************)
(* Gear.equip / Gear.unequip called directly on a Gear object, for any     *)
(* character: the calls of a script that holds the gear.                   *)
(***************************************************************************)
CallerFrame(fn, g, c) ==
    [Frame(fn, "called", g, NoGear, c, None, None, 0, FALSE, << >>)
        EXCEPT !.from = gears[g].character]

\* gear.equip(c) that skips the unequip from the gear's previous character
GearEquip_noUnequip(g, c) ==
    /\ CanStart
    /\ Commit(EquipSync(World, g, c),
              [tasks EXCEPT ![1] = << EquipFrame(g, c, "manifest"),
                                      CallerFrame("gearEquip", g, c) >>])
    /\ UNCHANGED << geo, ent, call >>
    /\ hist' = [hist EXCEPT !.ops = @ + 1, !.held = TRUE]
    /\ UNCHANGED << assetCache, ui, lootOnGround >>

\* `await gear.equip(c)`: a gear that has a character is unequipped first
GearEquip(g, c) ==
    /\ CanStart
    /\ IF gears[g].character # None
       THEN Commit(UnequipSync(World, g),
                   [tasks EXCEPT ![1] = UnequipFrames(World, g)
                       \o << EquipFrame(g, c, "afterUnequip"),
                             CallerFrame("gearEquip", g, c) >>])
       ELSE Commit(EquipSync(World, g, c),
                   [tasks EXCEPT ![1] = << EquipFrame(g, c, "manifest"),
                                           CallerFrame("gearEquip", g, c) >>])
    /\ UNCHANGED << geo, ent, call >>
    /\ hist' = [hist EXCEPT !.ops = @ + 1, !.held = TRUE]
    /\ UNCHANGED << assetCache, ui, lootOnGround >>

\* `await gear.unequip()`, of an equipped gear or of one with nothing
\* equipped (a call that changes nothing is not counted as an operation)
GearUnequip(g) ==
    /\ AllIdle /\ hist.created
    /\ gears[g].character # None => hist.ops < MaxOps
    /\ Commit(UnequipSync(World, g),
              [tasks EXCEPT ![1] = UnequipFrames(World, g)
                  \o << CallerFrame("gearUnequip", g, None) >>])
    /\ UNCHANGED << geo, ent, call >>
    /\ hist' = [hist EXCEPT !.ops = IF gears[g].character # None THEN @ + 1 ELSE @,
                            !.held = TRUE]
    /\ UNCHANGED << assetCache, ui, lootOnGround >>

\* the awaited call has returned: the script goes on
CallerReturn(t) ==
    /\ ~Idle(t) /\ Top(t).fn \in {"gearEquip", "gearUnequip"} /\ Top(t).pc = "called"
    /\ Commit(World, [tasks EXCEPT ![t] = Tail(@)])
    /\ UNCHANGED << geo, ent, call >>
    /\ hist' = hist
    /\ UNCHANGED << assetCache, ui, lootOnGround >>

TaskStepGear ==
    \E t \in TaskIds :
        \/ EquipAfterUnequip(t)
        \/ EquipManifest(t)
        \/ EquipSheetLoaded(t)
        \/ UnequipUnloaded(t)
        \/ LoadDefaultGearAfterEquip(t)
        \/ CreatePlayerAfterGear(t)
        \/ CallerReturn(t)

NextGear ==
    \/ CreatePlayer
    \/ \E g \in HeldGears, c \in Chars : GearEquip(g, c)
    \/ \E g \in HeldGears : GearUnequip(g)
    \/ TaskStepGear
    \/ Environment

SpecGear == Init /\ [][NextGear]_vars

\* the Player operations with loadDefaultGear among them
NextAPI ==
    \/ Next
    \/ LoadDefaultGearAgain

SpecAPI == Init /\ [][NextAPI]_vars

(***************************************************************************)
(* The callers of the game: the pointer-down loot pickup, the right-click  *)
(* handlers of the HUD slots and the drag of an item out of the HUD.  Each *)
(* handler runs as a task of its own; of _onDragEnd the releases over the  *)
(* game world and over the dragged item's own slot are the inputs.         *)
(* The walk / idle animation and the ticker are left to Spec: they do not  *)
(* decide which operations are in flight.                                  *)
(***************************************************************************)
\* the task a new handler runs as: the first one that is idle
FreeTask ==
    IF \E t \in TaskIds : Idle(t)
    THEN CHOOSE t \in TaskIds : Idle(t) /\ \A u \in TaskIds : Idle(u) => t <= u
    ELSE 0

CanHandle == hist.created /\ Settled /\ hist.ops < MaxHandlers /\ FreeTask # 0

HandlerFrame(fn, pc, slot, item, i, prev) ==
    [Frame(fn, pc, NoGear, NoGear, None, slot, item, i, FALSE, << >>)
        EXCEPT !.prev = prev]

\* inventorySlots.find(s => !s.item): the index of the first free slot, or 0
FreeInvSlot(u) ==
    IF \E i \in 1..InvSize : u.inv[i] = None
    THEN CHOOSE i \in 1..InvSize :
            u.inv[i] = None /\ \A j \in 1..InvSize : u.inv[j] = None => i <= j
    ELSE 0

\* ui._setInventorySlot(entry i, item) up to its first await
SetInventoryFrames(u, i, item) ==
    IF u.inv[i] # None
    THEN << HandlerFrame("setInventorySlot", "unloadIcon", None, item, i, None) >>
    ELSE << HandlerFrame("setInventorySlot", "loadIcon", None, item, i, None) >>

\* an await of _setInventorySlot returns: after `entry.item.unloadIcon()` the
\* new icon is loaded, after `item.loadIcon()` the entry holds the item
SetInventorySlotStep(t) ==
    /\ ~Idle(t) /\ Top(t).fn = "setInventorySlot"
    /\ IF Top(t).pc = "unloadIcon"
       THEN /\ tasks' = [tasks EXCEPT ![t] = << [Top(t) EXCEPT !.pc = "loadIcon"] >> \o Tail(@)]
            /\ ui' = ui
       ELSE /\ tasks' = [tasks EXCEPT ![t] = Tail(@)]
            /\ ui' = [ui EXCEPT !.inv[Top(t).i] = Top(t).item]
    /\ UNCHANGED << geo, ent, call >>
    /\ hist' = hist
    /\ UNCHANGED << gears, chr, containers, equippedGear, ticker, assetCache,
                    lootOnGround >>

\* `await entry.item.unloadIcon()` of _clearInventorySlot returns
ClearInventoryIconUnloaded(t) ==
    /\ At(t, "clearInventorySlot", "unloadIcon")
    /\ ui' = [ui EXCEPT !.inv[Top(t).i] = None]
    /\ tasks' = [tasks EXCEPT ![t] = Tail(@)]
    /\ UNCHANGED << geo, ent, call >>
    /\ hist' = hist
    /\ UNCHANGED << gears, chr, containers, equippedGear, ticker, assetCache,
                    lootOnGround >>

\* onPointerDown whose pickupAndEquip leaves the loot on the ground
OnPointerDownLoot_keepsLoot(item) ==
    /\ CanHandle
    /\ ui.drag = NoDrag
    /\ item \in lootOnGround
    /\ CallEquipItem(FreeTask, "pickupAndEquip", item, << >>)
    /\ lootOnGround' = lootOnGround
    /\ UNCHANGED << geo, ent, call >>
    /\ hist' = [hist EXCEPT !.ops = @ + 1]
    /\ UNCHANGED << assetCache, ui >>

\* onPointerDown on a loot within pickup range: player.pickupAndEquip(loot),
\* not awaited
OnPointerDownLoot(item) ==
    /\ CanHandle
    /\ ui.drag = NoDrag
    /\ item \in lootOnGround
    /\ CallEquipItem(FreeTask, "pickupAndEquip", item, << >>)
    /\ lootOnGround' = lootOnGround \ { item }
    /\ UNCHANGED << geo, ent, call >>
    /\ hist' = [hist EXCEPT !.ops = @ + 1]
    /\ UNCHANGED << assetCache, ui >>

\* UI._onEquippedSlotRightClick up to `await this._setInventorySlot(...)`
OnEquippedSlotRightClick(slot) ==
    /\ CanHandle
    /\ ~ui.busy
    /\ ui.eq[slot] # None
    /\ FreeInvSlot(ui) # 0
    /\ ui' = [ui EXCEPT !.busy = TRUE]
    /\ tasks' = [tasks EXCEPT ![FreeTask] =
                    SetInventoryFrames(ui, FreeInvSlot(ui), ui.eq[slot])
                    \o << HandlerFrame("onEquippedSlotRightClick", "invSet", slot,
                                       ui.eq[slot], FreeInvSlot(ui), None) >>]
    /\ UNCHANGED << geo, ent, call >>
    /\ hist' = [hist EXCEPT !.ops = @ + 1]
    /\ UNCHANGED << gears, chr, containers, equippedGear, ticker, assetCache,
                    lootOnGround >>

\* the icon is in the inventory: the equipped entry is cleared and
\* player.unequipSlotSilent(slotType) is awaited
EquippedRightClickAfterInv(t) ==
    /\ At(t, "onEquippedSlotRightClick", "invSet")
    /\ ui' = [ui EXCEPT !.eq[Top(t).slot] = None]
    /\ CallUnequipSlot(t, "unequipSlotSilent", Top(t).slot,
                       << [Top(t) EXCEPT !.pc = "last"] >> \o Tail(tasks[t]))
    /\ UNCHANGED << geo, ent, call >>
    /\ hist' = hist
    /\ UNCHANGED << assetCache, lootOnGround >>

\* UI._onInventorySlotRightClick up to `await this._clearInventorySlot(entry)`
OnInventorySlotRightClick(i) ==
    /\ CanHandle
    /\ ~ui.busy
    /\ ui.inv[i] # None
    /\ ui' = [ui EXCEPT !.busy = TRUE]
    /\ tasks' = [tasks EXCEPT ![FreeTask] =
                    << HandlerFrame("clearInventorySlot", "unloadIcon", None, None, i, None),
                       HandlerFrame("onInventorySlotRightClick", "invCleared",
                                    ItemSlot(ui.inv[i]), ui.inv[i], i,
                                    ui.eq[ItemSlot(ui.inv[i])]) >>]
    /\ UNCHANGED << geo, ent, call >>
    /\ hist' = [hist EXCEPT !.ops = @ + 1]
    /\ UNCHANGED << gears, chr, containers, equippedGear, ticker, assetCache,
                    lootOnGround >>

\* the inventory slot is cleared: player.equipItem(item) is awaited
InventoryRightClickAfterClear(t) ==
    /\ At(t, "onInventorySlotRightClick", "invCleared")
    /\ CallEquipItem(t, "equipItem", Top(t).item,
                     << [Top(t) EXCEPT !.pc = "equipCalled"] >> \o Tail(tasks[t]))
    /\ UNCHANGED << geo, ent, call >>
    /\ hist' = hist
    /\ UNCHANGED << assetCache, ui, lootOnGround >>

\* equipItem has returned: the previously equipped item, if any, goes into the
\* freed inventory slot; else the handler ends
InventoryRightClickAfterEquip(t) ==
    /\ At(t, "onInventorySlotRightClick", "equipCalled")
    /\ IF Top(t).prev # None
       THEN /\ tasks' = [tasks EXCEPT ![t] =
                            SetInventoryFrames(ui, Top(t).i, Top(t).prev)
                            \o << [Top(t) EXCEPT !.pc = "last"] >> \o Tail(@)]
            /\ ui' = ui
       ELSE /\ tasks' = [tasks EXCEPT ![t] = Tail(@)]
            /\ ui' = [ui EXCEPT !.busy = FALSE]
    /\ UNCHANGED << geo, ent, call >>
    /\ hist' = hist
    /\ UNCHANGED << gears, chr, containers, equippedGear, ticker, assetCache,
                    lootOnGround >>

RightClickHandlers == {"onEquippedSlotRightClick", "onInventorySlotRightClick"}

\* a handler whose return leaves _rightClickBusy set
RightClickReturn_keepsBusy(t) ==
    /\ ~Idle(t)
    /\ Top(t).fn \in RightClickHandlers
    /\ Top(t).pc = "last"
    /\ ui' = ui
    /\ Commit(World, [tasks EXCEPT ![t] = Tail(@)])
    /\ UNCHANGED << geo, ent, call >>
    /\ hist' = hist
    /\ UNCHANGED << assetCache, lootOnGround >>

\* the last await of a right-click handler returns: `finally` frees the guard
RightClickReturn(t) ==
    /\ ~Idle(t)
    /\ Top(t).fn \in RightClickHandlers
    /\ Top(t).pc = "last"
    /\ ui' = [ui EXCEPT !.busy = FALSE]
    /\ Commit(World, [tasks EXCEPT ![t] = Tail(@)])
    /\ UNCHANGED << geo, ent, call >>
    /\ hist' = hist
    /\ UNCHANGED << assetCache, lootOnGround >>

\* a load, an unload or a fetch awaited under a right-click handler rejects:
\* no frame between the await and the handler catches, so the error unwinds
\* the whole stack and the handler's `finally` frees the guard
RightClickRejected(t) ==
    /\ ~Idle(t)
    /\ tasks[t][Len(tasks[t])].fn \in RightClickHandlers
    /\ IOAwait(Top(t))
    /\ ui' = [ui EXCEPT !.busy = FALSE]
    /\ Commit(World, [tasks EXCEPT ![t] = << >>])
    /\ UNCHANGED << geo, ent, call >>
    /\ hist' = hist
    /\ UNCHANGED << assetCache, lootOnGround >>

\* UI._onDragStart on an equipped slot (idx 0) or on an inventory slot
OnDragStart(source, slot, idx) ==
    /\ hist.created
    /\ Settled
    /\ ui.drag = NoDrag
    /\ LET item == IF source = "equipped" THEN ui.eq[slot] ELSE ui.inv[idx]
       IN /\ item # None
          /\ ui' = [ui EXCEPT !.drag = [source |-> source, slot |-> slot,
                                        idx |-> idx, item |-> item]]
    /\ UNCHANGED << geo, ent, call >>
    /\ hist' = hist
    /\ UNCHANGED << gears, chr, containers, equippedGear, ticker, assetCache,
                    tasks, lootOnGround >>

\* UI._onDragEnd with the pointer over the dragged item's own slot (snap back)
\* or over the game world (_dropAsLoot up to `await loot.loadTextures()`)
OnDragEnd(where) ==
    /\ Settled
    /\ ui.drag # NoDrag
    /\ IF where = "ownSlot"
       THEN /\ ui' = [ui EXCEPT !.drag = NoDrag]
            /\ UNCHANGED << geo, ent, call >>
            /\ hist' = hist
            /\ tasks' = tasks
       ELSE /\ CanHandle
            /\ ui' = [ui EXCEPT !.drag = NoDrag,
                                !.eq = IF ui.drag.source = "equipped"
                                       THEN [@ EXCEPT ![ui.drag.slot] = None] ELSE @,
                                !.inv = IF ui.drag.source = "inventory"
                                        THEN [@ EXCEPT ![ui.drag.idx] = None] ELSE @]
            /\ tasks' = [tasks EXCEPT ![FreeTask] =
                            << HandlerFrame("dropAsLoot", "lootLoaded",
                                            IF ui.drag.source = "equipped"
                                            THEN ui.drag.slot ELSE None,
                                            ui.drag.item, ui.drag.idx, None) >>]
            /\ UNCHANGED << geo, ent, call >>
            /\ hist' = [hist EXCEPT !.ops = @ + 1]
    /\ UNCHANGED << gears, chr, containers, equippedGear, ticker, assetCache,
                    lootOnGround >>

\* `await loot.loadTextures()` of _dropAsLoot returns: the loot is on the
\* ground; for an equipped source player.unequipSlotSilent(slotType) is
\* started and not awaited
DropAsLootLoaded(t) ==
    /\ At(t, "dropAsLoot", "lootLoaded")
    /\ lootOnGround' = lootOnGround \cup { Top(t).item }
    /\ IF Top(t).slot # None
       THEN CallUnequipSlot(t, "unequipSlotSilent", Top(t).slot, << >>)
       ELSE Commit(World, [tasks EXCEPT ![t] = Tail(@)])
    /\ UNCHANGED << geo, ent, call >>
    /\ hist' = hist
    /\ UNCHANGED << assetCache, ui >>

TaskStepUI ==
    \E t \in TaskIds :
        \/ EquipManifest(t)
        \/ EquipSheetLoaded(t)
        \/ UnequipUnloaded(t)
        \/ SetEquippedItemStep(t)
        \/ OpAfterEquip(t)
        \/ OpAfterUnequip(t)
        \/ OpReturn(t)
        \/ LoadDefaultGearAfterEquip(t)
        \/ CreatePlayerAfterGear(t)
        \/ SetInventorySlotStep(t)
        \/ ClearInventoryIconUnloaded(t)
        \/ EquippedRightClickAfterInv(t)
        \/ InventoryRightClickAfterClear(t)
        \/ InventoryRightClickAfterEquip(t)
        \/ RightClickReturn(t)
        \/ RightClickRejected(t)
        \/ DropAsLootLoaded(t)

NextUI ==
    \/ CreatePlayer
    \/ \E item \in Items : OnPointerDownLoot(item)
    \/ \E slot \in Slots : OnEquippedSlotRightClick(slot)
    \/ \E i \in 1..InvSize : OnInventorySlotRightClick(i)
    \/ \E slot \in Slots : OnDragStart("equipped", slot, 0)
    \/ \E i \in 1..InvSize : OnDragStart("inventory", None, i)
    \/ \E where \in {"ownSlot", "world"} : OnDragEnd(where)
    \/ TaskStepUI

SpecUI == Init /\ [][NextUI]_vars

(***************************************************************************)
(* The collision functions applied to polygons drawn from bounded sets.    *)
(***************************************************************************)
MaxOff == 3

\* an axis-aligned rectangle, in the vertex order of bPoly
Rect(x, y, w, h) == << Pt(x, y), Pt(x + w, y), Pt(x + w, y + h), Pt(x, y + h) >>

\* polyToWorld: the polygon placed at a world position, its points given as
\* (p - anchor) * size
polyToWorld(poly, worldX, worldY) ==
    [i \in 1..Len(poly) |-> Pt(worldX + poly[i].x, worldY + poly[i].y)]

\* the moving polygons: two rectangles and a triangle, at every offset
MoverShapes ==
    { Rect(0, 0, 2, 2), Rect(0, 0, 1, 3), << Pt(0, 0), Pt(0, 1), Pt(1, 0) >> }
MovingPolys ==
    { polyToWorld(sh, ox, oy) : sh \in MoverShapes, ox \in 0..MaxOff, oy \in 0..MaxOff }

\* the static polygons of area.colliders: rectangles (one in the opposite
\* vertex order) and a triangle
ColliderPolys ==
    { Rect(2, 2, 2, 2), Rect(1, 1, 4, 4), Rect(6, 2, 2, 2),
      << Pt(2, 2), Pt(2, 4), Pt(4, 4), Pt(4, 2) >>,
      << Pt(2, 2), Pt(4, 2), Pt(4, 4) >> }
SecondColliders == { Rect(3, 3, 2, 2), << Pt(1, 1), Pt(3, 1), Pt(1, 3) >> }

\* area.boundaries: { x, y, width, height }
Boundaries ==
    { [x |-> 2, y |-> 2, width |-> 2, height |-> 2],
      [x |-> 4, y |-> 3, width |-> 2, height |-> 4] }

InitSAT ==
    /\ InitProgram
    /\ ent = NewEntity
    /\ call = NoCall
    /\ geo \in { [NoGeo EXCEPT !.a = a, !.b = b, !.c = c, !.boundaries = << bd >>] :
                    a \in MovingPolys, b \in ColliderPolys, c \in SecondColliders,
                    bd \in Boundaries }

ProgramUnchanged ==
    UNCHANGED << gears, chr, containers, equippedGear, ticker, assetCache,
                 tasks, ui, lootOnGround, hist, ent, call >>

\* satOverlap(polyA, polyB)
SatOverlap ==
    /\ geo.op = None
    /\ geo' = [geo EXCEPT !.op = "satOverlap", !.r = satOverlap(geo.a, geo.b)]
    /\ ProgramUnchanged

\* resolveCollisions(movingPoly, colliders) for the first n colliders
ResolveCollisions(n) ==
    /\ geo.op = None
    /\ geo' = [geo EXCEPT !.op = "resolveCollisions", !.n = n,
                          !.r = resolveCollisions(geo.a, SubSeq(<< geo.b, geo.c >>, 1, n))]
    /\ ProgramUnchanged

\* resolveBoundaryCollisions(movingPoly, boundaries)
ResolveBoundaryCollisions ==
    /\ geo.op = None
    /\ geo' = [geo EXCEPT !.op = "resolveBoundaryCollisions",
                          !.r = resolveBoundaryCollisions(geo.a, geo.boundaries)]
    /\ ProgramUnchanged

NextSAT ==
    \/ SatOverlap
    \/ \E n \in 0..2 : ResolveCollisions(n)
    \/ ResolveBoundaryCollisions

SpecSAT == InitSAT /\ [][NextSAT]_vars

(***************************************************************************)
(* Movement of the player, an NPC and an enemy in an area: the game loop   *)
(* and Area.update call the update methods, a click moves the player.      *)
(***************************************************************************)
\* the number of movement calls of a behaviour
MaxMoves == 5

\* ticker.deltaTime of a frame: a fifth of a second and a whole second
Deltas == {12, 60}

\* where a click can send the player: east, west, 3 units east, south
PlayerTargets == { Pt(200, 100), Pt(0, 100), Pt(103, 100), Pt(100, 160) }

\* the points pickPatrolTarget and pickWanderTarget can draw, within
\* patrolRadius (150) of the enemy's origin and wanderRadius of the NPC's
PatrolTargets == { Pt(470, 100) }
WanderTargets == { Pt(100, 20) }

\* no point drawn, or one of the set
Drawn(S) == { << >> } \cup { << p >> : p \in S }

\* area.colliders and area.boundaries: a wall across the way east of the
\* player's start, and a boundary strip beyond the enemy's patrol
AreaColliders == << Rect(150, 90, 10, 20) >>
AreaBoundaries == << [x |-> 600, y |-> 100, width |-> 50, height |-> 400] >>

\* CHARACTER_COLLISION_BOX, the bottom third of the sprite, as (p - anchor)
\* * size for a texture 30 wide and 30 high anchored at its bottom centre,
\* in whole units
CHARACTER_COLLISION_BOX == Rect(-15, -10, 30, 10)

\* every target lies on an axis through its character
AxisAligned(W) ==
    \A c \in Characters :
        W.chr[c].hasTarget /\ ~W.chr[c].nan => OnAxis(W.chr[c])

\* the effect of a call on the characters; nothing else changes
Move(W, op, c, delta) ==
    /\ hist.moves < MaxMoves
    /\ AxisAligned(W)
    /\ Commit(W, tasks)
    /\ hist' = [hist EXCEPT !.moves = @ + 1, !.last = Call(op, c, delta)]
    /\ UNCHANGED << assetCache, ui, lootOnGround, geo, ent, call >>

\* movePlayerToPointer: player.moveToward(worldX, worldY)
PlayerMoveToward(p) ==
    \E W \in { moveTowardPoint(World, ThePlayer, p) } :
        Move(W, "moveToward", ThePlayer, 0)

\* gameLoop: player.update(delta)
PlayerUpdate(delta) ==
    \E W \in { update(World, ThePlayer, delta) } :
        Move(W, "update", ThePlayer, delta)

\* Area.update: npc.update(delta), followed when the NPC has no target by
\* pickWanderTarget if Math.random() < 0.002 (wander then holds its point)
NpcUpdate(delta, wander) ==
    \E W1 \in { npcUpdate(World, TheNpc, delta) } :
        /\ wander # << >> => ~chr[TheNpc].isInteracting /\ ~W1.chr[TheNpc].hasTarget
        /\ \E W2 \in { IF ~W1.chr[TheNpc].isInteracting /\ ~W1.chr[TheNpc].hasTarget
                           /\ wander # << >>
                        THEN moveTowardPoint(W1, TheNpc, wander[1])
                        ELSE W1 } :
              Move(W2, "update", TheNpc, delta)

\* npc.interact()
NpcInteract ==
    \E W \in { interact(World, TheNpc) } : Move(W, "interact", TheNpc, 0)

\* npc.endInteraction()
NpcEndInteraction ==
    /\ chr[TheNpc].isInteracting
    /\ Move([World EXCEPT !.chr[TheNpc].isInteracting = FALSE],
            "endInteraction", TheNpc, 0)

\* Area.update: enemy.update(delta)
EnemyUpdate(delta, patrol, ready) ==
    \E W \in { enemyUpdate(World, TheEnemy, delta, patrol, ready) } :
        Move(W, "update", TheEnemy, delta)

\* enemy.takeDamage(amount) with amount >= health: die()
EnemyDie ==
    /\ chr[TheEnemy].isAlive
    /\ \E W \in { takeDamage(World, TheEnemy, chr[TheEnemy].health) } :
          Move(W, "die", TheEnemy, 0)

\* enemy.takeDamage(amount)
EnemyTakeDamage(amount) ==
    \E W \in { takeDamage(World, TheEnemy, amount) } :
        Move(W, "takeDamage", TheEnemy, 0)

\* a tick of PIXI.Ticker.shared in which the sprites advance a frame
SpriteTick ==
    \E W \in { TickWorld(World, TRUE) } : Move(W, "tick", None, 0)

\* the keydown handler of the debug keys: H takes 10 health from the
\* player, M takes 10 mana
KeyDown(key) ==
    \E W \in { IF key = "h"
                THEN [World EXCEPT !.chr[ThePlayer].currentHealth =
                                        Max(0, @ - 10 * Unit)]
                ELSE [World EXCEPT !.chr[ThePlayer].currentMana =
                                        Max(0, @ - 10 * Unit)] } :
        Move(W, "keydown", ThePlayer, 0)

\* the anomaly the NaN guard of Character.update recovers from: x or y of
\* the player has become NaN, the container has kept its position
NaNPt == Pt(0, 0)
PositionFault ==
    /\ ~chr[ThePlayer].nan
    /\ \E W \in { [World EXCEPT !.chr[ThePlayer].pos = NaNPt,
                                !.chr[ThePlayer].nan = TRUE] } :
          Move(W, "fault", ThePlayer, 0)

NextMove ==
    \/ \E p \in PlayerTargets : PlayerMoveToward(p)
    \/ \E delta \in Deltas : PlayerUpdate(delta)
    \/ \E delta \in Deltas, wander \in Drawn(WanderTargets) :
          NpcUpdate(delta, wander)
    \/ NpcInteract
    \/ NpcEndInteraction
    \/ \E delta \in Deltas, patrol \in Drawn(PatrolTargets), ready \in BOOLEAN :
          EnemyUpdate(delta, patrol, ready)
    \/ EnemyDie
    \/ SpriteTick

SpecMove == Init /\ [][NextMove]_vars

\* the enemy and the player: the player can walk out of the enemy's
\* aggroRange, the enemy can be hit
FarTargets == { Pt(-250, 100), Pt(200, 100) }
Damages == { 4, 10, 15 }

NextEnemy ==
    \/ \E p \in FarTargets : PlayerMoveToward(p)
    \/ \E delta \in Deltas : PlayerUpdate(delta)
    \/ \E delta \in Deltas, patrol \in Drawn(PatrolTargets), ready \in BOOLEAN :
          EnemyUpdate(delta, patrol, ready)
    \/ \E amount \in Damages : EnemyTakeDamage(amount)

SpecEnemy == Init /\ [][NextEnemy]_vars

\* the player walking to one target after another: a click sets a target
\* when the player has none, and the game loop updates the player on every
\* tick; call holds the distance and the smallest step of the walk under
\* way and the number of updates made since it began
ReachTargets ==
    { Pt(0, 100), Pt(103, 100), Pt(200, 100), Pt(460, 100),
      Pt(100, 160), Pt(100, 500), Pt(460, 500) }
MinDelta == CHOOSE d \in Deltas : \A e \in Deltas : d <= e

SetTarget(p) ==
    /\ ~chr[ThePlayer].hasTarget
    /\ \E W \in { moveTowardPoint(World, ThePlayer, p) } :
          /\ AxisAligned(W)
          /\ Commit(W, tasks)
          /\ call' = [ op |-> "walk",
                       d0 |-> Distance(W.chr[ThePlayer]),
                       step |-> StepOf(ThePlayer, TargetDx(W.chr[ThePlayer]),
                                       TargetDy(W.chr[ThePlayer]), MinDelta),
                       n |-> 0 ]
    /\ hist' = hist
    /\ UNCHANGED << assetCache, ui, lootOnGround, geo, ent >>

\* gameLoop: player.update(delta) of a tick
TickUpdate(delta) ==
    /\ \E W \in { update(World, ThePlayer, delta) } : Commit(W, tasks)
    /\ call' = IF chr[ThePlayer].hasTarget THEN [call EXCEPT !.n = @ + 1]
               ELSE call
    /\ hist' = hist
    /\ UNCHANGED << assetCache, ui, lootOnGround, geo, ent >>

NextReach ==
    \/ \E p \in ReachTargets : SetTarget(p)
    \/ \E delta \in Deltas : TickUpdate(delta)

\* the ticker calls gameLoop on every tick for as long as the page runs
SpecReach ==
    /\ Init
    /\ [][NextReach]_vars
    /\ WF_vars(\E delta \in Deltas : TickUpdate(delta))

\* health and mana of the player when the movement starts: full, or short
\* of full by less than the regeneration of a second
StartVitals == { [h |-> 100 * Unit, m |-> 100 * Unit],
                 [h |-> 100 * Unit - 10, m |-> 100 * Unit - 50] }

InitVitals ==
    /\ \E v \in StartVitals :
          InitAround([InitChr EXCEPT ![ThePlayer].currentHealth = v.h,
                                     ![ThePlayer].currentMana = v.m])
    /\ geo = NoGeo
    /\ ent = NewEntity
    /\ call = NoCall

\* the player alone: its movement, the debug keys and the anomaly
NextVitals ==
    \/ \E p \in PlayerTargets : PlayerMoveToward(p)
    \/ \E delta \in Deltas : PlayerUpdate(delta)
    \/ \E key \in {"h", "m"} : KeyDown(key)
    \/ PositionFault
    \/ SpriteTick

SpecVitals == InitVitals /\ [][NextVitals]_vars

(***************************************************************************)
(* The life of an Entity that is not the player: loadTextures and          *)
(* initSprite, the area adding its container to the world, destroy.  The   *)
(* callbacks it has on PIXI.Ticker.shared are named by the call of         *)
(* initSprite that made them, and so are its sprites.                      *)
(***************************************************************************)
MaxInits == 3

\* Entity.initSprite: nothing without an animation; a shadow sprite when
\* there are shadow frames; the sprite; a new shadow-sync callback whenever
\* this.shadowSprite is set
initSprite(e) ==
    LET n == e.inits + 1
        e0 == [e EXCEPT !.inits = n]
        e1 == IF e0.shadowTextures = "frames"
              THEN [e0 EXCEPT !.shadowSprite = n,
                              !.children = Append(@, << "shadow", n >>)]
              ELSE e0
        e2 == [e1 EXCEPT !.sprite = n,
                         !.children = Append(@, << "sprite", n >>)]
    IN IF ~e.textures THEN e0
       ELSE IF e2.shadowSprite # 0
       THEN [e2 EXCEPT !.shadowTickerFn = n, !.tickerFns = @ \cup {n}]
       ELSE e2

\* Entity.loadTextures: sheets is whether the manifest lists sheets for the
\* sprite key, frames whether a frame name of them matches, shadow what the
\* shadow sheets hold ("unset" when the manifest lists none)
loadTextures(e, sheets, frames, shadow) ==
    IF ~sheets THEN e
    ELSE initSprite([e EXCEPT !.textures = frames,
                              !.shadowTextures = IF shadow = "unset" THEN @
                                                 ELSE shadow])

\* Entity.destroy
destroy(e) ==
    [e EXCEPT !.tickerFns = IF e.shadowTickerFn # 0 THEN @ \ {e.shadowTickerFn}
                            ELSE @,
              !.shadowTickerFn = 0,
              !.parent = FALSE]

EntityStep(e, op) ==
    /\ ent' = [e EXCEPT !.last = op]
    /\ UNCHANGED << gears, chr, containers, equippedGear, ticker, assetCache,
                    tasks, ui, lootOnGround, hist, geo, call >>

\* await entity.loadTextures() of Farm, or a later reload
LoadTextures(sheets, frames, shadow) ==
    /\ ent.inits < MaxInits
    /\ EntityStep(loadTextures(ent, sheets, frames, shadow), "loadTextures")

\* a call of initSprite to re-create the sprite
InitSpriteAgain ==
    /\ ent.inits < MaxInits
    /\ EntityStep(initSprite(ent), "initSprite")

\* Area: this.container.addChild(entity.container)
AddToArea ==
    /\ ~ent.parent
    /\ EntityStep([ent EXCEPT !.parent = TRUE], "addChild")

\* Enemy.die / Loot.pickup: this.destroy()
Destroy == EntityStep(destroy(ent), "destroy")

NextEntity ==
    \/ \E sheets \in BOOLEAN, frames \in BOOLEAN,
          shadow \in {"unset", "empty", "frames"} :
          LoadTextures(sheets, frames, shadow)
    \/ InitSpriteAgain
    \/ AddToArea
    \/ Destroy

SpecEntity == Init /\ [][NextEntity]_vars

(***************************************************************************)
(* Calls of Entity.findClosestDirection: the number of directions of the   *)
(* entity and the angle are drawn, the call records its result.            *)
(***************************************************************************)
\* angles reach MaxTurns turns either way, in steps of 2.5 degrees
MaxTurns == 2
AngleInputs == { k * 25 : k \in (0 - MaxTurns * 144)..(MaxTurns * 144) }

\* the numbers of facing directions an Entity is built with
DirCounts == {1, 2, 3, 4, 8, 16}

AnyProgram == InitProgram /\ geo = NoGeo /\ ent = NewEntity

InitDir ==
    /\ AnyProgram
    /\ call \in { [op |-> None, directions |-> n, angle |-> a, r |-> 0] :
                     n \in DirCounts, a \in AngleInputs }

\* entity.findClosestDirection(angle)
FindClosestDirection ==
    /\ call.op = None
    /\ call' = [call EXCEPT !.op = "findClosestDirection",
                            !.r = closestDirection(anglesOf(call.directions),
                                                   call.angle)]
    /\ UNCHANGED << gears, chr, containers, equippedGear, ticker, assetCache,
                    tasks, ui, lootOnGround, hist, geo, ent >>

NextDir == FindClosestDirection

SpecDir == InitDir /\ [][NextDir]_vars

(***************************************************************************)
(* Calls of Entity.getAnimationFrames / Gear._getFrames on the table the   *)
(* parse loop builds from frames of "walk" met in a drawn order of         *)
(* directions.                                                             *)
(***************************************************************************)
MaxDirs == 3

\* the directions of the frames of a sheet: -22.5, 0, 22.5, 45 and 180
SheetDirs == {-225, 0, 225, 450, 1800}

\* the orders in which up to MaxDirs of them are first met
InsertOrders ==
    { o \in UNION { [1..n -> SheetDirs] : n \in 1..MaxDirs } :
        \A i, j \in 1..Len(o) : i # j => o[i] # o[j] }

\* the frames of a direction that the parse loop has collected
FrameCount(d) == IF d = 450 THEN 2 ELSE 1

\* this.textures after the parse loop of loadTextures has met the frames
\* of "walk" in the order o of their directions
ParsedTable(o) ==
    MergeTable(<< >>,
               << AnimEntry("walk", [i \in 1..Len(o) |-> DirEntry(o[i], FrameCount(o[i]))]) >>)

InitFrames ==
    /\ AnyProgram
    /\ call \in { [op |-> None, order |-> o, animName |-> a, direction |-> d,
                   r |-> NoFrames] :
                     o \in InsertOrders, a \in {"walk", "idle"},
                     d \in {0, 225, 450, 2000} }

\* entity.getAnimationFrames(animName, direction)
GetAnimationFrames ==
    /\ call.op = None
    /\ call' = [call EXCEPT !.op = "getAnimationFrames",
                            !.r = _getFrames(ParsedTable(call.order),
                                             call.animName, call.direction)]
    /\ UNCHANGED << gears, chr, containers, equippedGear, ticker, assetCache,
                    tasks, ui, lootOnGround, hist, geo, ent >>

NextFrames == GetAnimationFrames

SpecFrames == InitFrames /\ [][NextFrames]_vars

(***************************************************************************)
(* The step of Character.update towards a target at any offset.  Lengths   *)
(* are kept squared, as fractions [n, d], since the effective speed is     *)
(* irrational off the axes.                                                *)
(***************************************************************************)
RECURSIVE GCD(_, _)
GCD(a, b) == IF b = 0 THEN a ELSE GCD(b, a % b)

\* effectiveSpeed squared with the vertical part at full speed
effectiveSpeedSq_circular(speed, dx, dy) == [n |-> speed * speed, d |-> 1]

\* effectiveSpeed squared: (speed cos)^2 + ((speed / 2) sin)^2, the angle
\* being atan2(dy, dx): cos^2 = dx^2 / (dx^2 + dy^2), sin^2 = dy^2 /
\* (dx^2 + dy^2), with dx and dy reduced by their common divisor
effectiveSpeedSq(speed, dx, dy) ==
    LET g == GCD(Abs(dx), Abs(dy))
        ux == dx \div g
        uy == dy \div g
    IN [ n |-> speed * speed * (4 * ux * ux + uy * uy),
         d |-> 4 * (ux * ux + uy * uy) ]

\* (effectiveSpeed * (delta / 60)) squared; delta is a multiple of 12
\* frames, a fifth of a second
stepSq(c, dx, dy, delta) ==
    LET e == effectiveSpeedSq(Speed(c), dx, dy)
        fifths == delta \div 12
    IN [ n |-> e.n * fifths * fifths, d |-> e.d * 25 ]

\* the square of the distance moved: distance * ratio, ratio being
\* min(speed / distance, 1)
movedSq(c, dx, dy, delta) ==
    LET s == stepSq(c, dx, dy, delta)
        distanceSq == dx * dx + dy * dy
    IN IF s.n < distanceSq * s.d THEN s ELSE [n |-> distanceSq, d |-> 1]

\* the offsets of the target from the character
Offsets == {-300, -150, 0, 150, 300}

InitStep ==
    /\ AnyProgram
    /\ call \in { [op |-> None, c |-> c, dx |-> dx, dy |-> dy, delta |-> delta,
                   r |-> [n |-> 0, d |-> 1]] :
                     c \in Characters, dx \in Offsets, dy \in Offsets,
                     delta \in Deltas }
    /\ call.dx # 0 \/ call.dy # 0

\* character.update(delta) with the target at (dx, dy) from the character
UpdateStep ==
    /\ call.op = None
    /\ call' = [call EXCEPT !.op = "update",
                            !.r = movedSq(call.c, call.dx, call.dy, call.delta)]
    /\ UNCHANGED << gears, chr, containers, equippedGear, ticker, assetCache,
                    tasks, ui, lootOnGround, hist, geo, ent >>

NextStep == UpdateStep

SpecStep == InitStep /\ [][NextStep]_vars

(***************************************************************************)
(* The collision polygon data and Area.placeStaticSprite registering the   *)
(* collider of a static sprite.  Normalised coordinates and anchors are in *)
(* thousandths, rounded; world coordinates are in thousandths of a pixel.  *)
(***************************************************************************)
COLLISION_POLYS ==
    [ farmhouse |->
          << Pt(29, 368), Pt(497, 51), Pt(954, 378), Pt(956, 801),
             Pt(697, 980), Pt(562, 883), Pt(387, 1000), Pt(332, 961),
             Pt(300, 982), Pt(178, 899), Pt(136, 926), Pt(77, 885),
             Pt(28, 794) >>,
      longhouse |->
          << Pt(0, 109), Pt(719, 394), Pt(856, 589), Pt(932, 745),
             Pt(1000, 868), Pt(1000, 1000), Pt(0, 1000) >>,
      cottageexterior |->
          << Pt(0, 696), Pt(515, 209), Pt(956, 693), Pt(506, 953) >>,
      cottagedoor |->
          << Pt(47, 172), Pt(500, 0), Pt(970, 62), Pt(970, 844),
             Pt(185, 1000), Pt(30, 968) >>,
      cottageprops |->
          << Pt(166, 395), Pt(510, 610), Pt(634, 583), Pt(1000, 822),
             Pt(791, 1000), Pt(0, 579) >>,
      fencehorizontal |->
          << Pt(0, 1000), Pt(1000, 1000), Pt(1000, 741), Pt(0, 741) >>,
      fencepatchedhorizontal |->
          << Pt(0, 1000), Pt(1000, 1000), Pt(1000, 755), Pt(0, 755) >>,
      fenceleft |->
          << Pt(0, 406), Pt(1000, 969), Pt(953, 1000), Pt(0, 475) >>,
      fencepatchedleft |->
          << Pt(0, 414), Pt(1000, 967), Pt(947, 1000), Pt(0, 475) >>,
      fenceright |->
          << Pt(49, 1000), Pt(1000, 486), Pt(1000, 409), Pt(0, 972) >>,
      fencepatchedright |->
          << Pt(54, 1000), Pt(1000, 472), Pt(1000, 405), Pt(0, 972) >>,
      fencevertical |->
          << Pt(0, 0), Pt(1000, 0), Pt(1000, 1000), Pt(0, 1000) >>,
      cart |->
          << Pt(0, 0), Pt(1000, 0), Pt(1000, 828), Pt(149, 1000),
             Pt(0, 1000) >>,
      table |->
          << Pt(26, 582), Pt(352, 455), Pt(974, 857), Pt(665, 1000) >>,
      woodenchest |->
          << Pt(0, 0), Pt(1000, 0), Pt(1000, 1000), Pt(0, 1000) >>,
      pillaroffate |->
          << Pt(0, 0), Pt(1000, 0), Pt(1000, 1000), Pt(0, 1000) >>,
      farmhousetree |->
          << Pt(466, 698), Pt(150, 431), Pt(1000, 0), Pt(1000, 1000),
             Pt(507, 1000) >>,
      windmillexterior |->
          << Pt(0, 914), Pt(0, 850), Pt(106, 615), Pt(896, 618),
             Pt(1000, 955), Pt(603, 1000), Pt(398, 998), Pt(118, 967) >>,
      windmilllowerstairs |->
          << Pt(365, 505), Pt(1000, 486), Pt(1000, 1000), Pt(729, 1000) >>,
      windmillupperstairs |->
          << Pt(386, 269), Pt(389, 0), Pt(554, 0), Pt(1000, 558),
             Pt(807, 560) >> ]

\* the full bounding box, for sprite keys without polygon data
DEFAULT_BOX == << Pt(0, 0), Pt(1000, 0), Pt(1000, 1000), Pt(0, 1000) >>

\* COLLISION_POLYS[spriteKey] || DEFAULT_BOX
NormPolyOf(spriteKey) ==
    IF spriteKey \in DOMAIN COLLISION_POLYS THEN COLLISION_POLYS[spriteKey]
    ELSE DEFAULT_BOX

\* polyToWorld of a normalised polygon: worldX + (px - anchorX) * width
normPolyToWorld(normPoly, worldX, worldY, width, height, anchorX, anchorY) ==
    [i \in 1..Len(normPoly) |->
        Pt(worldX * 1000 + (normPoly[i].x - anchorX) * width,
           worldY * 1000 + (normPoly[i].y - anchorY) * height)]

\* the sprite keys placed, one of them without polygon data; positions,
\* texture sizes and anchors of the sprites
PlacedKeys == DOMAIN COLLISION_POLYS \cup {"rock"}
PlacedAt == { Pt(0, 0), Pt(7, 3) }
TextureSizes == { [w |-> 2, h |-> 3], [w |-> 30, h |-> 20] }
Anchors == { 0, 500 }

InitPolys ==
    /\ AnyProgram
    /\ call \in { [op |-> None, spriteKey |-> k, at |-> at, size |-> size,
                   anchor |-> a, colliders |-> << >>] :
                     k \in PlacedKeys, at \in PlacedAt, size \in TextureSizes,
                     a \in Anchors }

\* Area.placeStaticSprite with collider = true: the world polygon of the
\* sprite is pushed on area.colliders
PlaceStaticSprite ==
    /\ call.op = None
    /\ call' = [call EXCEPT
                  !.op = "placeStaticSprite",
                  !.colliders =
                      Append(@, normPolyToWorld(NormPolyOf(call.spriteKey),
                                                call.at.x, call.at.y,
                                                call.size.w, call.size.h,
                                                call.anchor, call.anchor))]
    /\ UNCHANGED << gears, chr, containers, equippedGear, ticker, assetCache,
                    tasks, ui, lootOnGround, hist, geo, ent >>

NextPolys == PlaceStaticSprite

SpecPolys == InitPolys /\ [][NextPolys]_vars

(***************************************************************************)
(* The Y-sort of Area.update.  A child of the area container has its y, an *)
(* optional sortY (<< >> when absent) and, to tell the children apart, the *)
(* place it had before the call.                                           *)
(***************************************************************************)
MaxChildren == 4

\* child.sortY ?? child.y
sortKey(child) == IF child.sortY # << >> THEN child.sortY[1] ELSE child.y

\* the while loop with >= for >
shift_orEqual(children, j, start, yVal) ==
    LET RECURSIVE loop(_, _)
        loop(cs, k) ==
            IF k >= start /\ sortKey(cs[k]) >= yVal
            THEN loop([cs EXCEPT ![k + 1] = cs[k]], k - 1)
            ELSE [children |-> cs, j |-> k]
    IN loop(children, j)

\* the while loop of the insertion: the children before place i whose key
\* is greater than yVal move one place up; j is where the loop stops
shift(children, j, start, yVal) ==
    LET RECURSIVE loop(_, _)
        loop(cs, k) ==
            IF k >= start /\ sortKey(cs[k]) > yVal
            THEN loop([cs EXCEPT ![k + 1] = cs[k]], k - 1)
            ELSE [children |-> cs, j |-> k]
    IN loop(children, j)

\* the for loop from place i on: each child is inserted among those
\* before it
RECURSIVE ySort(_, _, _)
ySort(children, i, start) ==
    IF i > Len(children) THEN children
    ELSE Eval(shift(children, i - 1, start, sortKey(children[i])), LAMBDA s :
             ySort([s.children EXCEPT ![s.j + 1] = children[i]], i + 1, start))

\* the sort of Area.update; places count from 1, so the background tile is
\* at place 1 and the sortable children start at place 2
areaUpdate(children, backgroundTile) ==
    IF Len(children) > 1
    THEN LET start == IF backgroundTile THEN 2 ELSE 1
         IN ySort(children, start + 1, start)
    ELSE children

\* the children when Area.update sorts them, the enemies and NPCs updated:
\* the background tile first when the area has one, then up to MaxChildren
\* - 1 others
ChildYs == { -1, 1, 2 }
ChildSortYs == { << >>, << 0 >>, << 2 >> }
BackgroundTile == [id |-> 0, y |-> 0, sortY |-> << >>]
ChildrenOfLen(n) ==
    { [i \in 1..n |-> [id |-> i, y |-> ys[i], sortY |-> ss[i]]] :
        ys \in [1..n -> ChildYs], ss \in [1..n -> ChildSortYs] }

InitSort ==
    /\ AnyProgram
    /\ \E bg \in BOOLEAN, n \in 0..(MaxChildren - 1) :
          \E cs \in ChildrenOfLen(n) :
              call = [ op |-> None, backgroundTile |-> bg,
                       before |-> IF bg THEN << BackgroundTile >> \o cs ELSE cs,
                       children |-> IF bg THEN << BackgroundTile >> \o cs ELSE cs ]

\* area.update(delta) from the sort on
AreaUpdate ==
    /\ call.op = None
    /\ call' = [call EXCEPT !.op = "update",
                            !.children = areaUpdate(@, call.backgroundTile)]
    /\ UNCHANGED << gears, chr, containers, equippedGear, ticker, assetCache,
                    tasks, ui, lootOnGround, hist, geo, ent >>

NextSort == AreaUpdate

SpecSort == InitSort /\ [][NextSort]_vars

(***************************************************************************)
(* The dialog of an NPC.  The lines of the dialog are named by their index *)
(* in npc.dialog, from 0; a returned value is << >> for null and << k >>   *)
(* for line k.  `heard` is what interact and advanceDialog have returned   *)
(* since the last interact that found dialogIndex at 0, `only` tells that  *)
(* nothing but advanceDialog has been called since then and the dialog has *)
(* not ended, and `ended` that the last call ended such a dialog.          *)
(***************************************************************************)
MaxLines == 3

\* NPC.endInteraction
endInteraction(npc) == [npc EXCEPT !.isInteracting = FALSE, !.dialogIndex = 0]

\* NPC.getCurrentDialog
getCurrentDialog(npc) ==
    IF npc.dialog = 0 THEN << >> ELSE << npc.dialogIndex >>

\* NPC.interact, the dialog part
npcInteract(npc) ==
    IF npc.dialog = 0 THEN [npc EXCEPT !.ret = << >>]
    ELSE [npc EXCEPT !.isInteracting = TRUE, !.ret = getCurrentDialog(npc)]

\* advanceDialog that does not end the interaction after the last line
advanceDialog_noEnd(npc) ==
    IF npc.dialogIndex + 1 >= npc.dialog
    THEN [npc EXCEPT !.dialogIndex = @ + 1, !.ret = << >>]
    ELSE [npc EXCEPT !.dialogIndex = @ + 1, !.ret = << npc.dialogIndex + 1 >>]

\* NPC.advanceDialog
advanceDialog(npc) ==
    IF npc.dialogIndex + 1 >= npc.dialog
    THEN [endInteraction(npc) EXCEPT !.ret = << >>]
    ELSE [npc EXCEPT !.dialogIndex = @ + 1, !.ret = << npc.dialogIndex + 1 >>]

\* an NPC as its constructor leaves it, with a dialog of 0 to MaxLines lines
InitDialog ==
    /\ AnyProgram
    /\ \E n \in 0..MaxLines :
          call = [ op |-> None, dialog |-> n, dialogIndex |-> 0,
                   isInteracting |-> FALSE, ret |-> << >>,
                   heard |-> << >>, only |-> FALSE, ended |-> FALSE ]

DialogCall(npc) ==
    /\ call' = npc
    /\ UNCHANGED << gears, chr, containers, equippedGear, ticker, assetCache,
                    tasks, ui, lootOnGround, hist, geo, ent >>

Interact ==
    \E npc \in { npcInteract(call) } :
        DialogCall([npc EXCEPT !.op = "interact",
                               !.heard = IF call.dialogIndex = 0 THEN npc.ret ELSE @,
                               !.only = call.dialogIndex = 0 /\ call.dialog > 0,
                               !.ended = FALSE])

GetCurrentDialog ==
    DialogCall([call EXCEPT !.op = "getCurrentDialog",
                            !.ret = getCurrentDialog(call),
                            !.only = FALSE,
                            !.ended = FALSE])

AdvanceDialog ==
    \E npc \in { advanceDialog(call) } :
        DialogCall([npc EXCEPT !.op = "advanceDialog",
                               !.heard = IF call.only THEN @ \o npc.ret ELSE @,
                               !.only = call.only /\ npc.ret # << >>,
                               !.ended = call.only /\ npc.ret = << >>])

EndInteraction ==
    DialogCall([endInteraction(call) EXCEPT !.op = "endInteraction",
                                            !.only = FALSE,
                                            !.ended = FALSE])

NextDialog ==
    \/ Interact
    \/ GetCurrentDialog
    \/ AdvanceDialog
    \/ EndInteraction

SpecDialog == InitDialog /\ [][NextDialog]_vars

(***************************************************************************)
(* Properties of the equip / unequip operations.                           *)
(***************************************************************************)
\* the merged main sheets of a sprite key base hold every animation
AssetsComplete(base) ==
    \A a \in Anims :
        \E n \in 1..SheetCount(base, FALSE) : HasAnim(SheetTable(base, FALSE, n), a)

\* a call of Gear.equip on gear g has not returned yet
EquipInFlight(g) ==
    \E t \in TaskIds : \E k \in 1..Len(tasks[t]) :
        tasks[t][k].fn = "equip" /\ tasks[t][k].g = g

\* the frames of the calls in flight
FramesInFlight ==
    UNION { { tasks[t][k] : k \in 1..Len(tasks[t]) } : t \in TaskIds }

\* the operation of frame f shows the gear its slot had, or else its new gear
\* whose equip has returned (sprites created, sync callback registered)
OldOrNewShown(f) ==
    \/ Attached(f.had, f.c)
    \/ /\ Attached(f.g, f.c)
       /\ gears[f.g].tickerFn
       /\ ~EquipInFlight(f.g)

\* C1: during equipItem / pickupAndEquip on a slot that shows a gear, the new
\* gear's equip has returned before the old gear's unequip begins, so at every
\* await one of the two overlays is attached (the new gear's sheets holding
\* the animations).
C1_NewBeforeOld ==
    \A f \in FramesInFlight :
        ( /\ f.fn \in {"equipItem", "pickupAndEquip"}
          /\ f.had # NoGear
          /\ AssetsComplete(GearBase(f.g)) ) => OldOrNewShown(f)

\* an equipItem / pickupAndEquip waits for the old gear's unequip, the old
\* overlay gone and the new one attached
C1_Witness ==
    \E f \in FramesInFlight :
        /\ f.fn \in {"equipItem", "pickupAndEquip"}
        /\ f.pc = "unequipped"
        /\ f.had # NoGear /\ f.old = f.had
        /\ AssetsComplete(GearBase(f.g))
        /\ ~Attached(f.had, f.c)
        /\ Attached(f.g, f.c)
        /\ \E t \in TaskIds : At(t, "unequip", "unload") /\ Top(t).g = f.old

\* C2: during unequipSlot / unequipSlotSilent on a slot with a default gear,
\* the default gear's equip has returned before the old gear's unequip
\* begins, so at every await the old or the default overlay is attached.
C2_DefaultBeforeOld ==
    \A f \in FramesInFlight :
        ( /\ f.fn \in {"unequipSlot", "unequipSlotSilent"}
          /\ defaultGearSlots[f.slot] # None
          /\ f.had # NoGear ) => OldOrNewShown(f)

\* an unequipSlot / unequipSlotSilent waits for the old gear's unequip, the
\* default overlay attached in its place
C2_Witness ==
    \E f \in FramesInFlight :
        /\ f.fn \in {"unequipSlot", "unequipSlotSilent"}
        /\ f.pc = "unequipped"
        /\ f.had # NoGear /\ f.old = f.had
        /\ GearBase(f.g) = defaultGearSlots[f.slot]
        /\ ~Attached(f.had, f.c)
        /\ Attached(f.g, f.c)
        /\ equippedGear[f.c][f.slot] = f.g
        /\ \E t \in TaskIds : At(t, "unequip", "unload") /\ Top(t).g = f.old


(***************************************************************************)
(* Properties of the overlay synchronisation.                              *)
(***************************************************************************)
\* the sprite sp of an overlay mirrors the character sprite csp: the frame
\* index clamped to the overlay's sequence
FrameMirrors(sp, csp) == sp.on => sp.frame = Min(csp.frame, sp.tex.len - 1)

\* the sprite sp shows the sequence its table resolves for the pair displayed
\* by the character sprite csp (where the table has the animation)
ShowsPair(sp, table, csp) ==
    LET want == _getFrames(table, csp.tex.anim, csp.tex.dir)
    IN (sp.on /\ want.len > 0) =>
          (sp.tex.anim = want.anim /\ sp.tex.dir = want.dir /\ sp.tex.len = want.len)

\* the overlay gr is in step with the character sprite csp
OverlaySynced(gr, csp) ==
    gr.sprite.on =>
        /\ gr.curAnim = csp.tex.anim
        /\ gr.curDir = csp.tex.dir
        /\ FrameMirrors(gr.sprite, csp)
        /\ FrameMirrors(gr.shadowSprite, csp)
        /\ ShowsPair(gr.sprite, gr.textures, csp)
        /\ ShowsPair(gr.shadowSprite, gr.shadowTextures, csp)

\* this step is a pass of the ticker callbacks
IsTickPass == \E adv \in BOOLEAN : Tick(adv)

\* this step swaps the player's frame sequence and runs onAnimationChanged
IsHookPass ==
    \/ \E d \in Dirs :
          /\ MoveToward(d)
          /\ ~chr[ThePlayer].isWalking \/ d # chr[ThePlayer].direction
    \/ /\ UpdateArrive
       /\ chr[ThePlayer].isWalking
       /\ _getFrames(CharTable, "idle", chr[ThePlayer].direction).len > 1

\* C3: one sync pass (the ticker callbacks of every registered overlay, or
\* syncNow on every equipped overlay) leaves each overlay's main and shadow
\* frame index at min(characterFrame, total - 1) and its tracked
\* (animName, direction) at the pair the character displays: zero-frame lag.
C3_OneSyncPass ==
    [][ /\ IsTickPass =>
              \A g \in GearIds :
                  (InSeq(ticker', g) /\ gears'[g].character # None) =>
                      OverlaySynced(gears'[g], chr'[gears'[g].character].sprite)
        /\ IsHookPass =>
              \A g \in GearIds :
                  (\E s \in Slots : equippedGear'[ThePlayer][s] = g) =>
                      OverlaySynced(gears'[g], chr'[ThePlayer].sprite)
      ]_vars

\* two overlays in step with a walking character at frame 1: the one-frame
\* walk of the helmet clamped to 0, the two-frame walk of the other at 1
C3_Witness ==
    /\ chr[ThePlayer].isWalking
    /\ chr[ThePlayer].sprite.frame = 1
    /\ \E g1, g2 \in EquippedValues(World, ThePlayer) :
          /\ GearBase(g1) = "crudehelmet"
          /\ gears[g1].sprite.on /\ gears[g1].curAnim = "walk"
          /\ gears[g1].sprite.tex.len = 1 /\ gears[g1].sprite.frame = 0
          /\ gears[g1].shadowSprite.on /\ gears[g1].shadowSprite.frame = 0
          /\ gears[g2].sprite.on /\ gears[g2].curAnim = "walk"
          /\ gears[g2].sprite.tex.len = 2 /\ gears[g2].sprite.frame = 1
    /\ \A g \in EquippedValues(World, ThePlayer) :
          OverlaySynced(gears[g], chr[ThePlayer].sprite)

\* C4: every operation that swaps the player's frame sequence runs
\* onAnimationChanged in the same step, a single-frame idle included: in no
\* state does the character show one (animation, direction) while an
\* equipped overlay still shows another.
C4_NoStaleOverlay ==
    \A g \in EquippedValues(World, ThePlayer) :
        /\ ShowsPair(gears[g].sprite, gears[g].textures, chr[ThePlayer].sprite)
        /\ ShowsPair(gears[g].shadowSprite, gears[g].shadowTextures,
                     chr[ThePlayer].sprite)

(***************************************************************************)
(* Properties of Gear.equip / Gear.unequip.                                *)
(***************************************************************************)
\* the display objects of gears in the container of character c
IsGearChild(d) == d.kind \in {"main", "shadow"}

\* C7: after any serial sequence of equip operations the gear sprites of the
\* player's container come after the character sprite, in non-decreasing
\* slot z-order (feet < legs < chest < neck < hands < offhand < mainhand <
\* head).
C7_ZOrder ==
    AllIdle =>
        LET seq == containers[ThePlayer]
            ci == IndexOf(seq, CharSprite(ThePlayer))
        IN \A i \in 1..Len(seq) :
              IsGearChild(seq[i]) =>
                  /\ i > ci
                  /\ \A j \in (i + 1)..Len(seq) :
                        IsGearChild(seq[j]) =>
                            SlotZ(GearSlot(seq[i].owner)) <= SlotZ(GearSlot(seq[j].owner))

\* legs, chest and head overlays attached, the chest one equipped after both
C7_Witness ==
    /\ AllIdle
    /\ hist.ops > 0
    /\ \A s \in Slots : Attached(equippedGear[ThePlayer][s], ThePlayer)

\* the postcondition of Gear.unequip on gear g
Unequipped(g) ==
    LET gr == gears[g]
    IN /\ ~gr.sprite.on /\ ~gr.shadowSprite.on
       /\ \A c \in Chars :
             ~InSeq(containers[c], MainOf(g)) /\ ~InSeq(containers[c], ShadowOf(g))
       /\ ~gr.tickerFn /\ ~InSeq(ticker, g)
       /\ gr.textures = << >> /\ gr.shadowTextures = << >>
       /\ gr.assetPaths = << >>
       /\ gr.character = None /\ gr.spriteKey = None
       /\ gr.curAnim = None /\ gr.curDir = NoDir
       /\ gr.released = gr.loaded
       /\ \A i, j \in 1..Len(gr.released) : gr.released[i] = gr.released[j] => i = j
       /\ \A i \in 1..Len(gr.loaded) : gr.loaded[i] \notin assetCache

\* C8: when Gear.unequip on an equipped overlay has returned, both sprites
\* are out of the container, every path equip loaded is unloaded exactly
\* once, the ticker callback is unregistered, and the texture tables, path
\* list, character, sprite key and tracked animation / direction are empty.
C8_UnequipPostcondition ==
    \A t \in TaskIds :
        (~Idle(t) /\ Top(t).pc = "unequipped" /\ Top(t).old # NoGear) =>
            Unequipped(Top(t).old)

\* unequip has returned for a helmet that had a shadow and three sheets
C8_Witness ==
    \E t \in TaskIds :
        /\ ~Idle(t) /\ Top(t).pc = "unequipped" /\ Top(t).old # NoGear
        /\ Top(t).had = Top(t).old
        /\ GearBase(Top(t).old) = "crudehelmet"
        /\ Len(gears[Top(t).old].released) = 3
        /\ Unequipped(Top(t).old)

\* the call of Gear.equip on top of task t returns in this step
EquipReturns(t) ==
    /\ ~Idle(t) /\ Top(t).fn = "equip"
    /\ tasks'[t] = Tail(tasks[t])

\* C10: when Gear.equip returns while the character is at frame k of its
\* animation, the new overlay shows frame min(k, total - 1) at once, without
\* waiting for a tick.
C10_FreshOverlayFrame ==
    [][ \A t \in TaskIds :
          EquipReturns(t) =>
              LET gr == gears'[Top(t).g]
              IN gr.character # None =>
                    /\ FrameMirrors(gr.sprite, chr'[gr.character].sprite)
                    /\ FrameMirrors(gr.shadowSprite, chr'[gr.character].sprite)
      ]_vars


(***************************************************************************)
(* Properties of the slots of a player.                                    *)
(***************************************************************************)
\* the gears of slot s with a sprite in the container of character c
AttachedGears(c, s) ==
    { g \in GearIds :
        /\ GearSlot(g) = s
        /\ InSeq(containers[c], MainOf(g)) \/ InSeq(containers[c], ShadowOf(g)) }

\* each slot has at most one gear attached, the one of equippedGear
OnePerSlot ==
    \A s \in Slots :
        /\ Cardinality(AttachedGears(ThePlayer, s)) <= 1
        /\ AttachedGears(ThePlayer, s) \subseteq { equippedGear[ThePlayer][s] }

\* C5 (as stated): for any sequence of loadDefaultGear, equipItem,
\* pickupAndEquip, unequipSlot and unequipSlotSilent run one after another,
\* whenever no call is in flight each slot has at most one attached gear, the
\* one stored in equippedGear[slot].
C5_AnySequence == AllIdle => OnePerSlot

\* C5 (amended): the same, for the sequences in which loadDefaultGear is
\* called once, first, by createPlayer.
C5_OnePerSlot == (AllIdle /\ ~hist.reloaded) => OnePerSlot

\* two operations have run after createPlayer, an item gear attached in its
\* slot and nothing else of that slot
C5_Witness ==
    /\ AllIdle /\ hist.created /\ ~hist.reloaded /\ hist.ops >= 2
    /\ \E s \in Slots :
          /\ equippedGear[ThePlayer][s] # NoGear
          /\ GearBase(equippedGear[ThePlayer][s]) \in Items
          /\ AttachedGears(ThePlayer, s) = { equippedGear[ThePlayer][s] }
    /\ OnePerSlot


(***************************************************************************)
(* Properties of a Gear moved between characters.                          *)
(***************************************************************************)
\* the number of positions of seq that hold x
CountIn(seq, x) == Cardinality({ i \in 1..Len(seq) : seq[i] = x })

\* gear g is attached to character c and to nothing else, with one callback
OnlyOn(g, c) ==
    /\ gears[g].character = c
    /\ gears[g].tickerFn /\ CountIn(ticker, g) = 1
    /\ \A d \in Chars :
          /\ CountIn(containers[d], MainOf(g)) = (IF d = c /\ gears[g].sprite.on THEN 1 ELSE 0)
          /\ CountIn(containers[d], ShadowOf(g)) =
                (IF d = c /\ gears[g].shadowSprite.on THEN 1 ELSE 0)

\* C9: when equip(c2) on a gear has returned, a gear that was equipped on c1
\* (another character, or c2 itself) has no visual in c1's container, is
\* attached only to c2 and has exactly one sync callback registered; in every
\* state no gear has a visual in the container of a character other than
\* its own.
C9_OneCharacter ==
    /\ \A t \in TaskIds :
          At(t, "gearEquip", "called") => OnlyOn(Top(t).g, Top(t).c)
    /\ \A g \in GearIds, d \in Chars :
          (InSeq(containers[d], MainOf(g)) \/ InSeq(containers[d], ShadowOf(g)))
              => gears[g].character = d

\* equip(woman) has returned for a helmet that was equipped on the man: its
\* sprites are in the woman's container
C9_Witness ==
    \E t \in TaskIds :
        /\ At(t, "gearEquip", "called")
        /\ Top(t).from = "man" /\ Top(t).c = "woman"
        /\ GearBase(Top(t).g) = "crudehelmet"
        /\ InSeq(containers["woman"], MainOf(Top(t).g))
        /\ InSeq(containers["woman"], ShadowOf(Top(t).g))
        /\ OnlyOn(Top(t).g, "woman")


(***************************************************************************)
(* Properties of the callers.                                              *)
(***************************************************************************)
\* the slots of character c a Player operation of task t is in flight on
SlotsInFlight(t, c) ==
    { tasks[t][k].slot : k \in { j \in 1..Len(tasks[t]) :
                                   tasks[t][j].fn \in PlayerOps /\ tasks[t][j].c = c } }

\* C6: across the interleavings of the right-click handlers, the drag
\* handlers (_dropAsLoot included) and the pointer-down loot pickup, no two
\* Player equip / unequip operations on the same slot of the same character
\* are in flight at the same time.
C6_SerializedPerSlot ==
    \A t1, t2 \in TaskIds :
        t1 # t2 => \A c \in Chars : SlotsInFlight(t1, c) \cap SlotsInFlight(t2, c) = {}



(***************************************************************************)
(* Gear.unequip on an overlay with nothing equipped.                       *)
(***************************************************************************)
\* the fields of a Gear as its constructor leaves them
EmptyOverlay(gr) ==
    /\ ~gr.sprite.on /\ ~gr.shadowSprite.on /\ ~gr.tickerFn
    /\ gr.textures = << >> /\ gr.shadowTextures = << >> /\ gr.assetPaths = << >>
    /\ gr.character = None /\ gr.spriteKey = None
    /\ gr.curAnim = None /\ gr.curDir = NoDir

\* the fields of the Gear object, the history fields left out
GearFields(gr) == [gr EXCEPT !.live = TRUE, !.loaded = << >>, !.released = << >>]

\* this step is the call of unequip on gear g, which has no character
UnequipCalledOnEmpty(g) ==
    /\ AllIdle /\ gears[g].character = None
    /\ tasks'[1] # << >>
    /\ Head(tasks'[1]).fn \in {"gearUnequip", "unequip"}
    /\ Head(tasks'[1]).g = g

\* C11: Gear.unequip called on an overlay that has no character (never
\* equipped, or unequipped before) changes no container, no ticker
\* registration, no loaded asset and no field of any Gear, awaits no unload,
\* and leaves the overlay with the fields of a new Gear; so a second unequip
\* leaves the state the first one left.
C11_UnequipEmptyNoOp ==
    [][\A g \in HeldGears :
          UnequipCalledOnEmpty(g) =>
             /\ UNCHANGED << containers, ticker, assetCache, equippedGear, chr >>
             /\ \A h \in GearIds : GearFields(gears'[h]) = GearFields(gears[h])
             /\ EmptyOverlay(gears'[g])
             /\ gears'[g].released = << >>
             /\ Head(tasks'[1]).fn = "gearUnequip"]_vars

\* unequip was called a second time on a gear that was equipped and
\* unequipped before
C11_Witness ==
    \E g \in HeldGears :
        /\ At(1, "gearUnequip", "called") /\ Top(1).g = g /\ Top(1).from = None
        /\ gears[g].live /\ gears[g].loaded # << >>
        /\ EmptyOverlay(gears[g])


(***************************************************************************)
(* Properties of the collision functions.                                  *)
(***************************************************************************)
\* the polygon is the four corners of an axis-aligned rectangle
IsRect(poly) ==
    /\ Len(poly) = 4
    /\ Cardinality(XsOf(poly)) = 2 /\ Cardinality(YsOf(poly)) = 2
    /\ { poly[i] : i \in 1..4 } = { Pt(x, y) : x \in XsOf(poly), y \in YsOf(poly) }

\* the length of the common part of two extents (negative across a gap)
OverlapLen(SA, SB) == Min(MaxOf(SA), MaxOf(SB)) - Max(MinOf(SA), MinOf(SB))

\* the least shift of extent SA, to either side, that leaves no common part
\* of positive length with SB
Depth(SA, SB) ==
    LET span == MaxOf(SA \cup SB) - MinOf(SA \cup SB)
        apart(t) == \/ OverlapLen({ v + t : v \in SA }, SB) <= 0
                    \/ OverlapLen({ v - t : v \in SA }, SB) <= 0
    IN MinOf({ t \in 0..span : apart(t) })


\* C13: for two axis-aligned rectangles satOverlap returns none exactly when
\* their x extents or their y extents have no common part of positive
\* length (touching counts as a gap); otherwise it returns a vector along
\* the x or the y axis whose length is the overlap depth on that axis, that
\* depth being no greater than the depth on the other axis.
C13_RectOverlap ==
    (geo.op = "satOverlap" /\ IsRect(geo.a) /\ IsRect(geo.b)) =>
        LET lenX == OverlapLen(XsOf(geo.a), XsOf(geo.b))
            lenY == OverlapLen(YsOf(geo.a), YsOf(geo.b))
            depthX == Depth(XsOf(geo.a), XsOf(geo.b))
            depthY == Depth(YsOf(geo.a), YsOf(geo.b))
            r == geo.r
        IN /\ (r = NoPush) <=> (lenX <= 0 \/ lenY <= 0)
           /\ r # NoPush =>
                \/ r.y = 0 /\ Abs(r.x) = depthX * r.d /\ depthX <= depthY
                \/ r.x = 0 /\ Abs(r.y) = depthY * r.d /\ depthY <= depthX

\* two squares of side 2 whose centres are 1 apart on the x axis: the push
\* has x-magnitude 1 (half a side) and y-magnitude 0
C13_Witness ==
    /\ geo.op = "satOverlap"
    /\ geo.a = Rect(1, 2, 2, 2) /\ geo.b = Rect(2, 2, 2, 2)
    /\ geo.r # NoPush /\ Abs(geo.r.x) = geo.r.d /\ geo.r.y = 0

\* the polygon scaled by k and then moved by (dx, dy)
ScaledMoved(poly, k, dx, dy) ==
    [i \in 1..Len(poly) |-> Pt(poly[i].x * k + dx, poly[i].y * k + dy)]

\* C14: the vector satOverlap returns for two overlapping convex polygons
\* points from polyB's centroid toward polyA's centroid, and polyA moved by
\* it no longer overlaps polyB (satOverlap returns none).
C14_PushSeparates ==
    (geo.op = "satOverlap" /\ geo.r # NoPush) =>
        LET r == geo.r
            cA == polygonCentroid(geo.a)
            cB == polygonCentroid(geo.b)
        IN /\ (cA.x * cB.n - cB.x * cA.n) * r.x + (cA.y * cB.n - cB.y * cA.n) * r.y >= 0
           /\ satOverlap(ScaledMoved(geo.a, r.d, r.x, r.y),
                         ScaledMoved(geo.b, r.d, 0, 0)) = NoPush

\* two push vectors are the same vector
SamePush(v, w) == v.x * w.d = w.x * v.d /\ v.y * w.d = w.y * v.d

\* the sum of satOverlap(movingPoly, c) over the colliders c it is not none for
RECURSIVE SumOfPushes(_, _)
SumOfPushes(movingPoly, colliders) ==
    IF colliders = << >> THEN ZeroPush
    ELSE LET mtv == satOverlap(movingPoly, Head(colliders))
             rest == SumOfPushes(movingPoly, Tail(colliders))
         IN IF mtv = NoPush THEN rest ELSE AddPush(rest, mtv)

\* the bounding boxes of two polygons have no common part of positive area
BoxesApart(polyA, polyB) ==
    \/ OverlapLen(XsOf(polyA), XsOf(polyB)) <= 0
    \/ OverlapLen(YsOf(polyA), YsOf(polyB)) <= 0

\* C15: resolveCollisions returns the sum of satOverlap(movingPoly, c) over
\* the colliders for which it is not none (the zero vector when there is
\* none), and satOverlap is none for every collider whose bounding box does
\* not intersect the moving polygon's.
C15_SumOfPushes ==
    geo.op = "resolveCollisions" =>
        LET colliders == SubSeq(<< geo.b, geo.c >>, 1, geo.n)
        IN /\ geo.r.d # 0
           /\ SamePush(geo.r, SumOfPushes(geo.a, colliders))
           /\ \A i \in 1..geo.n :
                 BoxesApart(geo.a, colliders[i]) => satOverlap(geo.a, colliders[i]) = NoPush

\* two colliders push the moving polygon, and the result is not zero
C15_Witness ==
    /\ geo.op = "resolveCollisions" /\ geo.n = 2
    /\ satOverlap(geo.a, geo.b) # NoPush /\ satOverlap(geo.a, geo.c) # NoPush
    /\ ~SamePush(geo.r, ZeroPush)
    /\ SamePush(geo.r, AddPush(satOverlap(geo.a, geo.b), satOverlap(geo.a, geo.c)))

\* the rectangle centred on (x, y) that spans x +- width/2 and y +- height/2
CentredRect(b) ==
    << Pt(b.x - b.width \div 2, b.y - b.height \div 2),
       Pt(b.x + b.width \div 2, b.y - b.height \div 2),
       Pt(b.x + b.width \div 2, b.y + b.height \div 2),
       Pt(b.x - b.width \div 2, b.y + b.height \div 2) >>

\* C16: resolveBoundaryCollisions returns what resolveCollisions returns for
\* the rectangles centred on (x, y) with the boundaries' width and height.
C16_CentredBoundaries ==
    geo.op = "resolveBoundaryCollisions" =>
        SamePush(geo.r,
                 resolveCollisions(geo.a,
                     [i \in 1..Len(geo.boundaries) |-> CentredRect(geo.boundaries[i])]))


(***************************************************************************)
(* Properties of the movement of the characters.                           *)
(***************************************************************************)
\* the target of the character is less than 5 units away
TargetWithin5(ch) ==
    /\ ch.hasTarget
    /\ TargetDx(ch) * TargetDx(ch) + TargetDy(ch) * TargetDy(ch) < 25

\* C17: whenever a character has a target less than 5 units away, one call
\* of Character.update, with any delta and for the speed of any character,
\* clears the target and leaves the character idle, where it stands.
C17_ArrivesWithin5 ==
    \A c \in Characters, delta \in Deltas :
        TargetWithin5(chr[c]) =>
            LET W == update(World, c, delta)
            IN /\ ~W.chr[c].hasTarget
               /\ ~W.chr[c].isWalking
               /\ W.chr[c].pos = chr[c].pos

\* an update has found the player within 5 units of the clicked point
C17_Witness ==
    /\ hist.last.op = "update" /\ hist.last.c = ThePlayer /\ hist.last.near
    /\ ~chr[ThePlayer].hasTarget /\ ~chr[ThePlayer].isWalking

\* the step of an update with this delta covers the distance to the target
StepReaches(c, delta) ==
    /\ chr[c].hasTarget
    /\ StepOf(c, TargetDx(chr[c]), TargetDy(chr[c]), delta) >= Distance(chr[c])

\* C18: when the step of an update is at least the remaining distance, that
\* one update puts the character exactly on the target, clears the target
\* and leaves the character idle.
C18_SnapClearsTarget ==
    \A c \in Characters, delta \in Deltas :
        StepReaches(c, delta) =>
            LET W == update(World, c, delta)
            IN /\ W.chr[c].pos = chr[c].targetPosition
               /\ ~W.chr[c].hasTarget
               /\ ~W.chr[c].isWalking

\* C19: the walking state follows the presence of a target: after every
\* call of moveToward, update, interact or die on a character (the walk
\* frames of every direction exist, by fallback), isWalking is true exactly
\* when targetPosition is set.
C19_WalkingIffTarget ==
    \A c \in Characters : chr[c].isWalking <=> chr[c].hasTarget

\* the points a moveToward of the model can be given
MovePoints == PlayerTargets \cup PatrolTargets \cup WanderTargets

\* the walk frames of a direction (with the fallback of getAnimationFrames)
WalkFrames(d) == _getFrames(CharTable, "walk", d)

\* C20: moveToward(x, y) always sets the target to (x, y).  It switches to
\* the walk frames of the closest direction only if the character was not
\* walking or that direction differs from the current one, then playing
\* from frame 0 if it was not walking and from currentFrame mod the length
\* of the new sequence if it was.  A character walking in that direction
\* already keeps its direction, its frame sequence and its current frame.
C20_MoveTowardSwitch ==
    \A c \in Characters, p \in MovePoints :
        LET ch == chr[c]
            W == moveTowardPoint(World, c, p)
            after == W.chr[c]
            newDirection ==
                findClosestDirection(Atan2Deg(p.y - ch.pos.y, p.x - ch.pos.x))
        IN /\ after.hasTarget /\ after.targetPosition = p
           /\ after.isWalking
           /\ IF ch.isWalking /\ newDirection = ch.direction
              THEN /\ after.sprite = ch.sprite
                   /\ after.direction = ch.direction
              ELSE /\ after.direction = newDirection
                   /\ after.sprite.tex = WalkFrames(newDirection)
                   /\ after.sprite.playing /\ after.sprite.loop
                   /\ after.sprite.frame =
                         IF ch.isWalking
                         THEN ch.sprite.frame % WalkFrames(newDirection).len
                         ELSE 0

\* the player, walking east on frame 1 of 2, has been sent west, where the
\* walk has a single frame
C20_Witness ==
    /\ hist.last.op = "moveToward" /\ hist.last.c = ThePlayer
    /\ hist.last.prev.isWalking
    /\ hist.last.prev.direction = 0 /\ hist.last.prev.frame = 1
    /\ chr[ThePlayer].direction = 1800
    /\ chr[ThePlayer].sprite.tex = WalkFrames(1800)
    /\ chr[ThePlayer].sprite.frame = 0

\* the position an update with this delta proposes: the step towards the
\* target, at most the distance
Proposed(c, delta) ==
    LET ch == chr[c]
        moved == Min(StepOf(c, TargetDx(ch), TargetDy(ch), delta), Distance(ch))
    IN Pt(ch.pos.x + Sign(TargetDx(ch)) * moved,
          ch.pos.y + Sign(TargetDy(ch)) * moved)

\* the push out of the colliders and the boundaries of the area for the
\* character's collision polygon placed at a position
PushOutAt(p) ==
    LET poly == polyToWorld(CHARACTER_COLLISION_BOX, p.x, p.y)
    IN AddPush(resolveCollisions(poly, AreaColliders),
               resolveBoundaryCollisions(poly, AreaBoundaries))

\* C12: in every Character.update that moves the character, the collision
\* polygon is projected at the proposed position and tested against the
\* colliders and the boundaries of the area, and the push-out returned is
\* added to the position that is committed and copied to the container.
C12_PushOutBeforeCommit ==
    \A c \in Characters, delta \in Deltas :
        (chr[c].hasTarget /\ ~TargetWithin5(chr[c])) =>
            LET proposed == Proposed(c, delta)
                push == PushOutAt(proposed)
                W == update(World, c, delta)
            IN /\ (W.chr[c].pos.x - proposed.x) * push.d = push.x
               /\ (W.chr[c].pos.y - proposed.y) * push.d = push.y
               /\ W.chr[c].container = W.chr[c].pos

(***************************************************************************)
(* Properties of the idle animation.                                       *)
(***************************************************************************)
\* the character is idle and its sprite plays an idle sequence of more than
\* one frame with the ping-pong closure installed
PingPong(ch) ==
    /\ ~ch.isWalking
    /\ ch.sprite.playing /\ ch.sprite.onComplete
    /\ ch.sprite.tex.anim = "idle" /\ ch.sprite.tex.len > 1

\* from a to b the playback advances one frame in its direction, or, at the
\* end of the sequence, completes and turns round once
PingPongStep(a, b) ==
    LET n == a.sprite.tex.len
        f == a.sprite.frame
        keeps == /\ b.idlePingPongForward = a.idlePingPongForward
                 /\ b.sprite.fwd = a.sprite.fwd
    IN /\ b.sprite.tex = a.sprite.tex
       /\ b.sprite.playing /\ ~b.sprite.loop /\ b.sprite.onComplete
       /\ a.sprite.fwd = a.idlePingPongForward
       /\ IF a.idlePingPongForward
          THEN IF f < n - 1
               THEN b.sprite.frame = f + 1 /\ keeps
               ELSE /\ b.sprite.frame = n - 1
                    /\ ~b.idlePingPongForward /\ ~b.sprite.fwd
          ELSE IF f > 0
               THEN b.sprite.frame = f - 1 /\ keeps
               ELSE /\ b.sprite.frame = 0
                    /\ b.idlePingPongForward /\ b.sprite.fwd

\* C21: while a character stays idle with an idle sequence of more than one
\* frame, the playback runs forward from frame 0 to the end, then backward
\* from the last frame to the start, and so on, the direction turning once
\* per completed playback; a completion that arrives while the character
\* walks flips nothing and restarts nothing.
C21_IdlePingPong ==
    /\ [][ \A c \in Chars :
              ( /\ PingPong(chr[c])
                /\ ~chr'[c].isWalking
                /\ hist'.created = hist.created
                /\ chr'[c] # chr[c] )
              => PingPongStep(chr[c], chr'[c]) ]_vars
    /\ [](\A c \in Chars : chr[c].isWalking => IdleOnComplete(chr[c]) = chr[c])

\* the idle player has played its sequence forward, turned round and played
\* it backward to frame 0
C21_Witness ==
    /\ PingPong(chr[ThePlayer])
    /\ ~chr[ThePlayer].idlePingPongForward
    /\ chr[ThePlayer].sprite.frame = 0
(***************************************************************************)
(* Properties of Character.update: regeneration and the NaN guard.         *)
(***************************************************************************)
\* the frame times of an update, the empty frame included
RegenDeltas == Deltas \cup {0}

\* C22: an update of any character, with or without a target, takes a
\* health and a mana that lie between 0 and their maximum to min(max,
\* current + regen * delta / 60), which does not exceed the maximum and is
\* not less than before
C22_Regeneration ==
    \A c \in Characters, delta \in RegenDeltas :
        \E W \in { update(World, c, delta) } :
            /\ (0 <= chr[c].currentHealth /\ chr[c].currentHealth <= maxHealth(c))
               => /\ W.chr[c].currentHealth
                        = Min(maxHealth(c), chr[c].currentHealth + healthRegen * delta)
                  /\ W.chr[c].currentHealth <= maxHealth(c)
                  /\ W.chr[c].currentHealth >= chr[c].currentHealth
            /\ (0 <= chr[c].currentMana /\ chr[c].currentMana <= maxMana(c))
               => /\ W.chr[c].currentMana
                        = Min(maxMana(c), chr[c].currentMana + manaRegen * delta)
                  /\ W.chr[c].currentMana <= maxMana(c)
                  /\ W.chr[c].currentMana >= chr[c].currentMana

\* an update of 12 frames of a player without a target has capped the
\* health at the maximum and added a fifth of a point of mana
C22_Witness ==
    /\ hist.last.op = "update"
    /\ hist.last.c = ThePlayer
    /\ ~chr[ThePlayer].hasTarget
    /\ ~hist.last.prev.isWalking
    /\ chr[ThePlayer].currentHealth = maxHealth(ThePlayer)
    /\ chr[ThePlayer].currentMana = 100 * Unit - 50 + 12

\* what the NaN guard leaves of character c of world W: the position of
\* the container as it was, no target, no walk
Recovered(W, c) ==
    /\ ~W.chr[c].nan
    /\ W.chr[c].pos = chr[c].container
    /\ W.chr[c].container = chr[c].container
    /\ ~W.chr[c].hasTarget
    /\ ~W.chr[c].isWalking

\* C23 as stated: an update that finds the position NaN resets it to the
\* position of the container, clears the target, leaves the character idle
\* and moves nothing
C23_NaNReset ==
    \A c \in Characters, delta \in Deltas :
        chr[c].nan => \E W \in { update(World, c, delta) } : Recovered(W, c)

\* C23, amended: an update that finds the position NaN and a target set
\* resets the position to that of the container, clears the target, leaves
\* the character idle and moves nothing; without a target it leaves the
\* position NaN and changes nothing but health and mana
C23_NaNResetWithTarget ==
    \A c \in Characters, delta \in Deltas :
        chr[c].nan =>
            \E W \in { update(World, c, delta) } :
                IF chr[c].hasTarget THEN Recovered(W, c)
                ELSE W = regenerate(World, c, delta) /\ W.chr[c].nan

\* the last update found the player walking to a target with a NaN
\* position, and has put it back where its container is
C23_Witness ==
    /\ hist.last.op = "update"
    /\ hist.last.nan
    /\ hist.last.prev.isWalking
    /\ ~chr[ThePlayer].nan
    /\ chr[ThePlayer].pos = chr[ThePlayer].container
    /\ ~chr[ThePlayer].hasTarget
    /\ ~chr[ThePlayer].isWalking

(***************************************************************************)
(* Properties of Entity.                                                   *)
(***************************************************************************)
\* C24: right after destroy, whatever calls of loadTextures and initSprite
\* came before, the container of the entity has no parent, none of the
\* shadow-sync callbacks the entity registered is on the ticker, and a
\* second destroy changes nothing
C24_DestroyCleans ==
    ent.last = "destroy" =>
        /\ ~ent.parent
        /\ ent.tickerFns = {}
        /\ destroy(ent) = ent

\* the members of this.angles
DirSet(directions) ==
    LET A == anglesOf(directions) IN { A[i] : i \in 1..Len(A) }

\* the circular distance of two angles: min(|a - b|, 360 - |a - b|) of
\* the angles taken mod 360
Circular(a, b) ==
    LET m == (a - b) % 3600 IN Min(m, 3600 - m)

\* C25: findClosestDirection returns a direction of the entity whose
\* circular distance to the angle is least, and of the directions at that
\* distance the first in ascending order
C25_ClosestDirection ==
    call.op = "findClosestDirection" =>
        /\ call.r \in DirSet(call.directions)
        /\ \A d \in DirSet(call.directions) :
              /\ Circular(call.angle, call.r) <= Circular(call.angle, d)
              /\ Circular(call.angle, call.r) = Circular(call.angle, d)
                    => call.r <= d

\* 22.5 degrees lies midway between the directions 0 and 45 of an entity of
\* 8 directions: the call returned 0
C25_Witness ==
    /\ call.op = "findClosestDirection"
    /\ call.directions = 8
    /\ call.angle = 225
    /\ call.r = 0

\* C26: the direction returned for an angle is the direction returned for
\* the angle plus or minus any number of whole turns
C26_TurnInvariant ==
    call.op = "findClosestDirection" =>
        \A k \in (0 - MaxTurns)..MaxTurns :
            closestDirection(anglesOf(call.directions), call.angle + 3600 * k)
                = call.r

\* the call with -180 degrees returned 180, as the call with 180 does
C26_Witness ==
    /\ call.op = "findClosestDirection"
    /\ call.directions = 16
    /\ call.angle = -1800
    /\ call.r = 1800

\* the directions of "walk" in the table of the call
Inserted == { call.order[i] : i \in 1..Len(call.order) }

\* C27: getAnimationFrames returns the frames of the animation and the
\* direction asked for when the table has them; else, the animation being
\* in the table, the frames of another of its directions, which are not
\* empty; and nothing only when the animation is not in the table
C27_FramesFallback ==
    call.op = "getAnimationFrames" =>
        /\ call.animName = "walk" /\ call.direction \in Inserted
              => call.r = Frames("walk", call.direction, FrameCount(call.direction))
        /\ call.animName = "walk" /\ call.direction \notin Inserted
              => /\ call.r.anim = "walk"
                 /\ call.r.dir \in Inserted
                 /\ call.r.len = FrameCount(call.r.dir)
        /\ call.r.len = 0 <=> call.animName # "walk"

\* "walk" has frames at 45 only and was asked for at 200: the frames of 45
\* were returned
C27_Witness ==
    /\ call.op = "getAnimationFrames"
    /\ call.order = << 450 >>
    /\ call.animName = "walk"
    /\ call.direction = 2000
    /\ call.r = Frames("walk", 450, 2)

\* C28: when the direction asked for is missing, the frames returned are
\* those of the direction that the parse loop inserted first
C28_FallbackIsFirstInserted ==
    ( /\ call.op = "getAnimationFrames"
      /\ call.animName = "walk"
      /\ call.direction \notin Inserted )
    => call.r.dir = call.order[1]

(***************************************************************************)
(* Properties of the elliptical speed.                                     *)
(***************************************************************************)
\* the update of the call moved less than the distance to the target
NotReaching ==
    /\ call.op = "update"
    /\ call.r.n < (call.dx * call.dx + call.dy * call.dy) * call.r.d

\* the distance moved is the effective speed times the seconds of the
\* frame, the effective speed squared being speed^2 * num / den; the
\* seconds squared are (delta / 60)^2 in lowest terms
MovedAt(num, den) ==
    LET fifths == call.delta \div 12
        g == GCD(fifths * fifths, 25)
        secN == (fifths * fifths) \div g
        secD == 25 \div g
    IN call.r.n * den * secD
          = Speed(call.c) * Speed(call.c) * num * secN * call.r.d

Horizontal == call.dy = 0
Vertical == call.dx = 0
Diagonal == Abs(call.dx) = Abs(call.dy)

\* C29 as stated: an update that does not reach the target moves the
\* character by effectiveSpeed * deltaSeconds, effectiveSpeed being speed
\* towards a horizontal target, speed / 2 towards a vertical one, and
\* speed * sqrt(0.3125) towards one at 45 degrees
C29_EllipticalSpeed ==
    NotReaching =>
        /\ Horizontal => MovedAt(1, 1)
        /\ Vertical => MovedAt(1, 4)
        /\ Diagonal => MovedAt(5, 16)

\* C29, amended: effectiveSpeed is speed towards a horizontal target,
\* speed / 2 towards a vertical one and speed * sqrt(0.625) towards one at
\* 45 degrees; on the axes the step of the movement is that distance
C29_EllipticalSpeedDiagonal ==
    NotReaching =>
        /\ Horizontal => MovedAt(1, 1)
        /\ Vertical => MovedAt(1, 4)
        /\ Diagonal => MovedAt(5, 8)
        /\ Horizontal \/ Vertical
              => LET step == StepOf(call.c, call.dx, call.dy, call.delta)
                 IN step * step * call.r.d = call.r.n

\* a fifth of a second of the player towards a target at 45 degrees
C29_Witness ==
    /\ NotReaching
    /\ call.c = ThePlayer
    /\ call.dx = 150
    /\ call.dy = -150
    /\ call.delta = 12
    /\ call.r.n * 200 = 312500 * call.r.d

(***************************************************************************)
(* Properties of the items.                                                *)
(***************************************************************************)
\* no call of the UI or of Player is in flight and nothing is dragged
Quiescent ==
    /\ \A t \in TaskIds : tasks[t] = << >>
    /\ ~ui.busy
    /\ ui.drag = NoDrag

\* the places that hold an item: the ground, equipped slots, inventory slots
Places(item) ==
    { << "ground" >> : x \in { y \in lootOnGround : y = item } }
    \cup { << "equipped", s >> : s \in { z \in Slots : ui.eq[z] = item } }
    \cup { << "inventory", i >> : i \in { j \in 1..InvSize : ui.inv[j] = item } }

PathsOf(g) == { gears[g].assetPaths[i] : i \in 1..Len(gears[g].assetPaths) }

\* C31: once the Player operations have returned, every spritesheet path
\* recorded by a gear whose sprites are attached to the character is loaded
C31_AttachedAssetsLoaded ==
    (\A t \in TaskIds : tasks[t] = << >>)
    => \A g \in GearIds :
          Attached(g, ThePlayer) => PathsOf(g) \subseteq assetCache

(***************************************************************************)
(* Properties of the handlers of the game.                                 *)
(***************************************************************************)
\* the frames of pickupAndEquip in flight for an item
PickupFrames(item) ==
    UNION { { << t, k >> : k \in { j \in 1..Len(tasks[t]) :
                                      /\ tasks[t][j].fn = "pickupAndEquip"
                                      /\ tasks[t][j].item = item } } :
            t \in TaskIds }

\* C32: from the start of pickupAndEquip on, the loot is not in
\* lootOnGround, so no pointer-down can find it again: at most one pickup
\* of it is ever in flight
C32_PickedUpOnce ==
    \A item \in Items :
        /\ PickupFrames(item) # {} => item \notin lootOnGround
        /\ Cardinality(PickupFrames(item)) <= 1

\* the pickup of the shirt is in flight, the pants still lie on the ground
C32_Witness ==
    /\ PickupFrames("simpleshirt") # {}
    /\ lootOnGround = {"simplepants"}

\* the tasks running a right-click handler: the handler is the outermost frame
RightClickTasks ==
    { t \in TaskIds : /\ tasks[t] # << >>
                      /\ tasks[t][Len(tasks[t])].fn \in RightClickHandlers }

\* at most one handler is past its guard, and the guard is set exactly while
\* one is
RightClickExclusive ==
    /\ Cardinality(RightClickTasks) <= 1
    /\ ui.busy <=> RightClickTasks # {}

\* C33: at most one right-click handler is past its guard at any time, and
\* _rightClickBusy is set exactly while one is: it is released when the handler
\* returns and when an await under it rejects, and while it is set no step
\* starts a second right-click handler.
C33_RightClickExclusive ==
    /\ [] RightClickExclusive
    /\ [][ui.busy => RightClickTasks' \subseteq RightClickTasks]_vars

\* a handler is in flight at an await while an inventory slot holds an item
\* that a second right-click could be aimed at
C33_Witness ==
    /\ ui.busy
    /\ Cardinality(RightClickTasks) = 1
    /\ Settled
    /\ \E i \in 1..InvSize : ui.inv[i] # None

\* the squared distance from the enemy to the player, as distanceTo reads it
PlayerDist2(cs) ==
    (cs[ThePlayer].pos.x - cs[TheEnemy].pos.x) * (cs[ThePlayer].pos.x - cs[TheEnemy].pos.x)
    + (cs[ThePlayer].pos.y - cs[TheEnemy].pos.y) * (cs[ThePlayer].pos.y - cs[TheEnemy].pos.y)

\* an Enemy.update of a living enemy that finds the player farther than
\* aggroRange (the distance is taken after the base movement)
EnemyUpdatesOutOfAggro ==
    /\ hist'.moves # hist.moves
    /\ hist'.last.op = "update"
    /\ hist'.last.c = TheEnemy
    /\ chr[TheEnemy].isAlive
    /\ ~chr'[ThePlayer].nan /\ ~chr'[TheEnemy].nan
    /\ PlayerDist2(chr') > aggroRange * aggroRange

\* C34: an Enemy.update that finds the player farther than aggroRange leaves
\* an enemy that was in state chase or attack in state idle or patrol.
C34_LosesAggro ==
    [][EnemyUpdatesOutOfAggro /\ chr[TheEnemy].state \in {"chase", "attack"}
          => chr'[TheEnemy].state \in {"idle", "patrol"}]_vars

\* health is never below 0, and an enemy at health 0 is dead: not alive, no
\* target, its container out of the area
DeadAtZero ==
    /\ chr[TheEnemy].health >= 0
    /\ chr[TheEnemy].health = 0 <=> ~chr[TheEnemy].isAlive
    /\ ~chr[TheEnemy].isAlive => /\ ~chr[TheEnemy].hasTarget
                                 /\ ~chr[TheEnemy].inArea
                                 /\ ~chr[TheEnemy].isWalking

\* C35: takeDamage never leaves health below 0; an enemy whose health is 0 is
\* dead (isAlive false, target cleared, container detached), and no later
\* takeDamage or update changes the health, state, position or target of a
\* dead enemy or revives it.
C35_DeadForGood ==
    /\ [] DeadAtZero
    /\ [][~chr[TheEnemy].isAlive
            => /\ ~chr'[TheEnemy].isAlive
               /\ chr'[TheEnemy].health = chr[TheEnemy].health
               /\ chr'[TheEnemy].state = chr[TheEnemy].state
               /\ chr'[TheEnemy].pos = chr[TheEnemy].pos
               /\ chr'[TheEnemy].hasTarget = chr[TheEnemy].hasTarget
               /\ chr'[TheEnemy].targetPosition = chr[TheEnemy].targetPosition]_vars

\* update has been called on an enemy that takeDamage had killed
C35_Witness ==
    /\ ~chr[TheEnemy].isAlive
    /\ chr[TheEnemy].health = 0
    /\ hist.last.op = "update"
    /\ hist.last.c = TheEnemy

\* the updates a walk of distance d0 takes at most with steps of at least
\* `step`: the steps that cover the distance and the update that finds the
\* target within 5 units
MaxUpdates(d0, step) == (d0 + step - 1) \div step + 1

Between(q, p, t) == (p <= q /\ q <= t) \/ (t <= q /\ q <= p)

\* C37: an update of a character that has a target leaves the character on
\* the segment from its position to the target, so it neither passes the
\* target nor moves away from it, and an update that moves it leaves the
\* container at the character's position.
C37_NeverOvershoots ==
    [][chr[ThePlayer].hasTarget
         => /\ Between(chr'[ThePlayer].pos.x, chr[ThePlayer].pos.x,
                       chr[ThePlayer].targetPosition.x)
            /\ Between(chr'[ThePlayer].pos.y, chr[ThePlayer].pos.y,
                       chr[ThePlayer].targetPosition.y)
            /\ chr'[ThePlayer].pos # chr[ThePlayer].pos
                  => chr'[ThePlayer].container = chr'[ThePlayer].pos]_vars

\* the second update of a walk of 360 units had 110 left to go and a step
\* of 250 or of 50: the character stands on the target or short of it
C37_Witness ==
    /\ chr[ThePlayer].hasTarget
    /\ chr[ThePlayer].targetPosition = Pt(460, 100)
    /\ call.d0 = 360
    /\ call.n = 2
    /\ chr[ThePlayer].pos = Pt(460, 100)
    /\ chr[ThePlayer].container = Pt(460, 100)

\* the cross product of the edges that meet at vertex i + 1 of a polygon
Turn(poly, i) ==
    LET n == Len(poly)
        a == poly[i]
        b == poly[(i % n) + 1]
        c == poly[((i + 1) % n) + 1]
    IN (b.x - a.x) * (c.y - b.y) - (b.y - a.y) * (c.x - b.x)

\* every vertex turns the same way
Convex(poly) ==
    \/ \A i \in 1..Len(poly) : Turn(poly, i) >= 0
    \/ \A i \in 1..Len(poly) : Turn(poly, i) <= 0

\* C38: the default box and the character collision box are convex, and so
\* are the normalised polygon of every static sprite placed and the world
\* polygon that placeStaticSprite registers for it.
C38_PolygonsConvex ==
    /\ Convex(DEFAULT_BOX)
    /\ Convex(CHARACTER_COLLISION_BOX)
    /\ call.op = "placeStaticSprite"
          => /\ Convex(NormPolyOf(call.spriteKey))
             /\ \A i \in 1..Len(call.colliders) : Convex(call.colliders[i])

\* the place of the child with identity id
PlaceOf(children, id) == CHOOSE i \in 1..Len(children) : children[i].id = id

\* C39: after Area.update the children after the background tile are in
\* non-decreasing order of sort key (sortY when present, else y), they are
\* the children of before the call, each once, the background tile is still
\* first, and children with equal keys are in the order they were in.
C39_YSorted ==
    call.op = "update" =>
        LET cs == call.children
            start == IF call.backgroundTile THEN 2 ELSE 1
        IN /\ \A i \in start..(Len(cs) - 1) : sortKey(cs[i]) <= sortKey(cs[i + 1])
           /\ Len(cs) = Len(call.before)
           /\ \A i \in 1..Len(cs) : \E j \in 1..Len(cs) : cs[j] = call.before[i]
           /\ call.backgroundTile => cs[1] = BackgroundTile
           /\ \A i \in start..Len(cs) : \A j \in (i + 1)..Len(cs) :
                  sortKey(cs[i]) = sortKey(cs[j])
                      => PlaceOf(call.before, cs[i].id) < PlaceOf(call.before, cs[j].id)

\* three children behind a background tile at y = 0: two with equal keys (a
\* y of 2 and a sortY of 2) ahead of one with a y of -1, which the sort has
\* moved to the place after the background tile
C39_Witness ==
    /\ call.op = "update"
    /\ call.backgroundTile
    /\ call.before # call.children
    /\ Len(call.children) = 4
    /\ call.before[2].y = 2 /\ call.before[2].sortY = << >>
    /\ call.before[3].y = 1 /\ call.before[3].sortY = << 2 >>
    /\ call.before[4].y = -1 /\ call.before[4].sortY = << >>
    /\ call.children[2].id = 3

\* the lines 0 .. n - 1 in order
LinesTo(n) == [k \in 1..n |-> k - 1]

====
